---- MODULE Spec2Model ----
(***************************************************************************)
(* A model of the imgproxy request-to-bytes pipeline:                      *)
(*   - the URL grammars and option application (processing_options.go),    *)
(*   - the request orchestrator and its admission semaphore (server.go),   *)
(*   - the target-format resolution and SVG pre-pass of processImage       *)
(*     (process.go).                                                       *)
(* Strings are sequences of one-character strings, so that Split, Join,    *)
(* Atoi and the base64 decoder are computed and not assumed.               *)
(***************************************************************************)
EXTENDS Integers, Sequences, FiniteSets, TLC

(***************************************************************************)
(* Bounds of the model.                                                    *)
(***************************************************************************)
\* number of directive segments of a generated advanced path
MaxDirectives == 2
\* number of requests served concurrently by the HTTP handler
NumRequests == 2
\* conf.Concurrency, the capacity of the admission semaphore (> 0)
Concurrency == 1

(***************************************************************************)
(* With(v, Body) is Body(v): a value is computed once and named, as a      *)
(* local variable of the code is.                                          *)
(***************************************************************************)
With(v, Body(_)) == CHOOSE r \in {Body(x) : x \in {v}} : TRUE

(***************************************************************************)
(* Strings.                                                                *)
(***************************************************************************)
RECURSIVE SplitFrom(_, _, _)
\* strings.Split(s, sep) for a one-character sep; `cur` is the piece in progress
SplitFrom(s, sep, cur) ==
    IF s = <<>> THEN <<cur>>
    ELSE IF Head(s) = sep THEN <<cur>> \o SplitFrom(Tail(s), sep, <<>>)
    ELSE SplitFrom(Tail(s), sep, Append(cur, Head(s)))

Split(s, sep) == SplitFrom(s, sep, <<>>)

RECURSIVE Join(_, _)
\* strings.Join(parts, sep); sep is a string (possibly empty)
Join(parts, sep) ==
    IF parts = <<>> THEN <<>>
    ELSE IF Len(parts) = 1 THEN parts[1]
    ELSE parts[1] \o sep \o Join(Tail(parts), sep)

\* strings.TrimPrefix(s, prefix)
TrimPrefix(s, prefix) ==
    IF Len(s) >= Len(prefix) /\ SubSeq(s, 1, Len(prefix)) = prefix
    THEN SubSeq(s, Len(prefix) + 1, Len(s))
    ELSE s

\* parts[from:] of a Go slice (from is 0-based)
SliceFrom(parts, from) == SubSeq(parts, from + 1, Len(parts))

(***************************************************************************)
(* strconv.Atoi with the int of 64 bits of the amd64 and arm64 builds.     *)
(* TLC's integers have 32 bits, so an int of the parsed options is written *)
(* as its sign and the decimal digits of its magnitude, the most           *)
(* significant first and none for 0.                                       *)
(***************************************************************************)
Digits == <<"0", "1", "2", "3", "4", "5", "6", "7", "8", "9">>

IsDigit(c) == \E i \in 1..Len(Digits) : Digits[i] = c

DigitVal(c) == (CHOOSE i \in 1..Len(Digits) : Digits[i] = c) - 1

RECURSIVE StripZeros(_)
\* a digit string without its leading zeros
StripZeros(s) == IF s # <<>> /\ Head(s) = "0" THEN StripZeros(Tail(s)) ELSE s

RECURSIVE DigitsLess(_, _)
\* a < b for two digit strings of the same length
DigitsLess(a, b) ==
    IF a = <<>> THEN FALSE
    ELSE IF Head(a) # Head(b) THEN DigitVal(Head(a)) < DigitVal(Head(b))
    ELSE DigitsLess(Tail(a), Tail(b))

\* the value of the digit string s is above that of limit (no leading zeros)
Above(s, limit) ==
    With(StripZeros(s), LAMBDA t :
         \/ Len(t) > Len(limit)
         \/ Len(t) = Len(limit) /\ DigitsLess(limit, t))

\* 1<<64 - 1, 1<<63 - 1 and 1<<63 in digits
MaxUint64Digits ==
    <<"1", "8", "4", "4", "6", "7", "4", "4", "0", "7", "3", "7", "0", "9", "5",
      "5", "1", "6", "1", "5">>
MaxInt64Digits ==
    <<"9", "2", "2", "3", "3", "7", "2", "0", "3", "6", "8", "5", "4", "7", "7",
      "5", "8", "0", "7">>
MinInt64Digits ==
    <<"9", "2", "2", "3", "3", "7", "2", "0", "3", "6", "8", "5", "4", "7", "7",
      "5", "8", "0", "8">>

\* the int with the given sign and magnitude; 0 has no sign
Int64(neg, digits) ==
    With(StripZeros(digits), LAMBDA t :
    [neg |-> neg /\ t # <<>>, digits |-> [i \in 1..Len(t) |-> DigitVal(t[i])]])

\* the int 0
IntZero == Int64(FALSE, <<>>)

RECURSIVE ParseUint(_, _)
\* strconv.ParseUint(s, 10, 64) from character i on: the first character
\* that is no digit gives "syntax", the first digit that takes the value
\* past 1<<64 - 1 gives "range", whatever follows it
ParseUint(s, i) ==
    IF i > Len(s) THEN ""
    ELSE IF ~IsDigit(s[i]) THEN "syntax"
    ELSE IF Above(SubSeq(s, 1, i), MaxUint64Digits) THEN "range"
    ELSE ParseUint(s, i + 1)

\* strconv.Atoi: [v |-> value, err |-> "" | "syntax" | "range"]; a value
\* out of range is the nearest int
Atoi(s) ==
    With(IF s # <<>> /\ Head(s) \in {"-", "+"} THEN Tail(s) ELSE s, LAMBDA body :
    IF body = <<>> THEN [v |-> IntZero, err |-> "syntax"]
    ELSE With(ParseUint(body, 1), LAMBDA e :
         IF e = "syntax" THEN [v |-> IntZero, err |-> "syntax"]
         ELSE IF Head(s) = "-"
         THEN IF e = "range" \/ Above(body, MinInt64Digits)
              THEN [v |-> Int64(TRUE, MinInt64Digits), err |-> "range"]
              ELSE [v |-> Int64(TRUE, body), err |-> ""]
         ELSE IF e = "range" \/ Above(body, MaxInt64Digits)
              THEN [v |-> Int64(FALSE, MaxInt64Digits), err |-> "range"]
              ELSE [v |-> Int64(FALSE, body), err |-> ""]))

(***************************************************************************)
(* Lookup tables of process.go and processing_options.go.                  *)
(***************************************************************************)
\* imageTypes: extension -> image type ("" when the key is absent)
imageTypes(ext) ==
    IF ext = <<"j", "p", "e", "g">> THEN "JPEG"
    ELSE IF ext = <<"j", "p", "g">> THEN "JPEG"
    ELSE IF ext = <<"p", "n", "g">> THEN "PNG"
    ELSE IF ext = <<"w", "e", "b", "p">> THEN "WEBP"
    ELSE IF ext = <<"g", "i", "f">> THEN "GIF"
    ELSE ""

\* gravityTypes: code -> gravity ("" when the key is absent)
gravityTypes(g) ==
    IF g = <<"c", "e">> THEN "CENTER"
    ELSE IF g = <<"n", "o">> THEN "NORTH"
    ELSE IF g = <<"e", "a">> THEN "EAST"
    ELSE IF g = <<"s", "o">> THEN "SOUTH"
    ELSE IF g = <<"w", "e">> THEN "WEST"
    ELSE IF g = <<"s", "m">> THEN "SMART"
    ELSE ""

\* resizeTypes: name -> resize type ("" when the key is absent)
resizeTypes(r) ==
    IF r = <<"f", "i", "t">> THEN "FIT"
    ELSE IF r = <<"f", "i", "l", "l">> THEN "FILL"
    ELSE IF r = <<"c", "r", "o", "p">> THEN "CROP"
    ELSE ""

\* defaultProcessingOptions()
defaultProcessingOptions ==
    [Resize |-> "FIT", Width |-> IntZero, Height |-> IntZero, Gravity |-> "CENTER",
     Enlarge |-> FALSE, Format |-> "JPEG"]

\* the zero value of processingOptions (var po processingOptions)
zeroProcessingOptions ==
    [Resize |-> "FIT", Width |-> IntZero, Height |-> IntZero, Gravity |-> "CENTER",
     Enlarge |-> FALSE, Format |-> "UNKNOWN"]

\* the result of an apply*Option call: the options and the error ("" is nil)
Applied(po, err) == [po |-> po, err |-> err]

(***************************************************************************)
(* Option application (processing_options.go).                             *)
(***************************************************************************)
applyWidthOption(po, args) ==
    IF Len(args) > 1 THEN Applied(po, "Invalid width arguments")
    ELSE With(Atoi(args[1]), LAMBDA a :
         IF a.err = "" \/ ~a.v.neg
         THEN Applied([po EXCEPT !.Width = a.v], "")
         ELSE Applied(po, "Invalid width"))

applyHeightOption(po, args) ==
    IF Len(args) > 1 THEN Applied(po, "Invalid height arguments")
    ELSE With(Atoi(args[1]), LAMBDA a :
         IF a.err = "" \/ ~po.Height.neg
         THEN Applied([po EXCEPT !.Height = a.v], "")
         ELSE Applied(po, "Invalid height"))

applyEnlargeOption(po, args) ==
    IF Len(args) > 1 THEN Applied(po, "Invalid enlarge arguments")
    ELSE Applied([po EXCEPT !.Enlarge = (args[1] # <<"0">>)], "")

applySizeOption(po, args) ==
    IF Len(args) > 3 THEN Applied(po, "Invalid size arguments")
    ELSE With(IF Len(args) >= 1 THEN applyWidthOption(po, SubSeq(args, 1, 1))
              ELSE Applied(po, ""), LAMBDA r1 :
         IF r1.err # "" THEN r1
         ELSE With(IF Len(args) >= 2
                   THEN applyHeightOption(r1.po, SubSeq(args, 2, 2))
                   ELSE r1, LAMBDA r2 :
              IF r2.err # "" THEN r2
              ELSE IF Len(args) = 3
                   THEN applyEnlargeOption(r2.po, SubSeq(args, 3, 3))
                   ELSE r2))

applyResizeOption(po, args) ==
    IF Len(args) > 4 THEN Applied(po, "Invalid resize arguments")
    ELSE IF resizeTypes(args[1]) = "" THEN Applied(po, "Invalid resize type")
    ELSE LET po1 == [po EXCEPT !.Resize = resizeTypes(args[1])]
         IN  IF Len(args) > 1 THEN applySizeOption(po1, Tail(args))
             ELSE Applied(po1, "")

applyGravityOption(po, args) ==
    IF Len(args) > 1 THEN Applied(po, "Invalid resize arguments")
    ELSE IF gravityTypes(args[1]) = "" THEN Applied(po, "Invalid gravity")
    ELSE Applied([po EXCEPT !.Gravity = gravityTypes(args[1])], "")

\* applyFormatOption; `save` is the set vipsTypeSupportSave
applyFormatOption(po, imgType, save) ==
    IF imgType \notin save THEN Applied(po, "Resulting image type not supported")
    ELSE Applied([po EXCEPT !.Format = imgType], "")

\* the switch of applyProcessingOption; it has no default case
applyProcessingOption(po, name, args) ==
    IF name = <<"r", "e", "s", "i", "z", "e">> THEN applyResizeOption(po, args)
    ELSE IF name = <<"s", "i", "z", "e">> THEN applySizeOption(po, args)
    ELSE IF name = <<"w", "i", "d", "t", "h">> THEN applyWidthOption(po, args)
    ELSE IF name = <<"h", "e", "i", "g", "h", "t">> THEN applyHeightOption(po, args)
    ELSE IF name = <<"e", "n", "l", "a", "r", "g", "e">> THEN applyEnlargeOption(po, args)
    ELSE IF name = <<"g", "r", "a", "v", "i", "t", "y">> THEN applyGravityOption(po, args)
    ELSE Applied(po, "")

(***************************************************************************)
(* base64.RawURLEncoding.DecodeString.                                     *)
(***************************************************************************)
B64Alphabet ==
    <<"A", "B", "C", "D", "E", "F", "G", "H", "I", "J", "K", "L", "M",
      "N", "O", "P", "Q", "R", "S", "T", "U", "V", "W", "X", "Y", "Z",
      "a", "b", "c", "d", "e", "f", "g", "h", "i", "j", "k", "l", "m",
      "n", "o", "p", "q", "r", "s", "t", "u", "v", "w", "x", "y", "z",
      "0", "1", "2", "3", "4", "5", "6", "7", "8", "9", "-", "_">>

IsB64(c) == \E i \in 1..Len(B64Alphabet) : B64Alphabet[i] = c

B64Val(c) == (CHOOSE i \in 1..Len(B64Alphabet) : B64Alphabet[i] = c) - 1

RECURSIVE B64Bytes(_)
\* the bytes of a string of alphabet characters whose length is not 1 mod 4
B64Bytes(s) ==
    IF Len(s) < 2 THEN <<>>
    ELSE With(B64Val(s[1]), LAMBDA v1 :
         With(B64Val(s[2]), LAMBDA v2 :
         IF Len(s) = 2 THEN <<v1 * 4 + (v2 \div 16)>>
         ELSE With(B64Val(s[3]), LAMBDA v3 :
              IF Len(s) = 3
              THEN <<v1 * 4 + (v2 \div 16), (v2 % 16) * 16 + (v3 \div 4)>>
              ELSE <<v1 * 4 + (v2 \div 16), (v2 % 16) * 16 + (v3 \div 4),
                     (v3 % 4) * 64 + B64Val(s[4])>>
                   \o B64Bytes(SubSeq(s, 5, Len(s))))))

\* the input without the new line characters, which the decoder ignores
Significant(s) == SelectSeq(s, LAMBDA c : c \notin {"\n", "\r"})

\* the index of the first character outside the alphabet, 0 when there is none
FirstInvalid(s) ==
    IF \A i \in 1..Len(s) : IsB64(s[i]) THEN 0
    ELSE CHOOSE i \in 1..Len(s) :
           /\ ~IsB64(s[i])
           /\ \A j \in 1..(i - 1) : IsB64(s[j])

\* base64.RawURLEncoding.DecodeString: [bytes |-> the decoded bytes,
\* err |-> "" | "corrupt"]; with the error come the bytes of the groups of
\* four characters decoded before it
DecodeString(s) ==
    With(Significant(s), LAMBDA t :
    With(FirstInvalid(t), LAMBDA p :
         IF p > 0
         THEN [bytes |-> B64Bytes(SubSeq(t, 1, 4 * ((p - 1) \div 4))),
               err |-> "corrupt"]
         ELSE IF Len(t) % 4 = 1
         THEN [bytes |-> B64Bytes(SubSeq(t, 1, Len(t) - 1)), err |-> "corrupt"]
         ELSE [bytes |-> B64Bytes(t), err |-> ""]))

(***************************************************************************)
(* Path parsing (processing_options.go).                                   *)
(***************************************************************************)
\* the result of a parse: (url, options, error)
Parsed(url, po, err) == [url |-> url, po |-> po, err |-> err]

\* decodeUrl: [url, imgType, err]
decodeUrl(parts) ==
    With(Split(Join(parts, <<>>), "."), LAMBDA urlParts :
    IF Len(urlParts) > 2
    THEN [url |-> <<>>, imgType |-> "UNKNOWN", err |-> "Invalid url encoding"]
    ELSE With(IF Len(urlParts) = 2 THEN imageTypes(urlParts[2]) ELSE "JPEG",
              LAMBDA imgType :
         IF imgType = ""
         THEN [url |-> <<>>, imgType |-> "UNKNOWN", err |-> "Invalid image format"]
         ELSE With(DecodeString(urlParts[1]), LAMBDA d :
              IF d.err # ""
              THEN [url |-> <<>>, imgType |-> "UNKNOWN", err |-> "Invalid url encoding"]
              ELSE [url |-> d.bytes, imgType |-> imgType, err |-> ""])))

RECURSIVE advancedOptions(_, _, _)
\* the loop of parsePathAdvanced from 0-based index i on:
\* [urlStart, po, err]; urlStart stays 0 when no segment without ":" is met
advancedOptions(parts, i, po) ==
    IF i >= Len(parts) THEN [urlStart |-> 0, po |-> po, err |-> ""]
    ELSE With(Split(parts[i + 1], ":"), LAMBDA args :
         IF Len(args) = 1 THEN [urlStart |-> i, po |-> po, err |-> ""]
         ELSE With(applyProcessingOption(po, args[1], Tail(args)), LAMBDA r :
              IF r.err # "" THEN [urlStart |-> 0, po |-> r.po, err |-> r.err]
              ELSE advancedOptions(parts, i + 1, r.po)))

parsePathAdvanced(parts, save) ==
    With(advancedOptions(parts, 0, defaultProcessingOptions), LAMBDA o :
    IF o.err # "" THEN Parsed(<<>>, o.po, o.err)
    ELSE With(decodeUrl(SliceFrom(parts, o.urlStart)), LAMBDA d :
         IF d.err # "" THEN Parsed(<<>>, o.po, d.err)
         ELSE With(applyFormatOption(o.po, d.imgType, save), LAMBDA f :
              IF f.err # ""
              THEN Parsed(<<>>, f.po, "Resulting image type not supported")
              ELSE Parsed(d.url, f.po, ""))))

parsePathSimple(parts, save) ==
    IF Len(parts) < 6 THEN Parsed(<<>>, zeroProcessingOptions, "Invalid path")
    ELSE
    With([zeroProcessingOptions EXCEPT
              !.Resize = IF resizeTypes(parts[1]) = "" THEN "FIT"
                         ELSE resizeTypes(parts[1])], LAMBDA po0 :
    With(applyWidthOption(po0, SubSeq(parts, 2, 2)), LAMBDA w :
    IF w.err # "" THEN Parsed(<<>>, w.po, w.err)
    ELSE
    With(applyHeightOption(w.po, SubSeq(parts, 3, 3)), LAMBDA h :
    IF h.err # "" THEN Parsed(<<>>, h.po, h.err)
    ELSE
    With(applyGravityOption(h.po, SubSeq(parts, 4, 4)), LAMBDA g :
    IF g.err # "" THEN Parsed(<<>>, g.po, g.err)
    ELSE
    With(applyEnlargeOption(g.po, SubSeq(parts, 5, 5)), LAMBDA e :
    IF e.err # "" THEN Parsed(<<>>, e.po, e.err)
    ELSE
    With(decodeUrl(SliceFrom(parts, 5)), LAMBDA d :
    IF d.err # "" THEN Parsed(<<>>, e.po, d.err)
    ELSE
    With(applyFormatOption(e.po, d.imgType, save), LAMBDA f :
    IF f.err # ""
    THEN Parsed(<<>>, f.po, "Resulting image type not supported")
    ELSE Parsed(d.url, f.po, ""))))))))

\* parsePath of processing_options.go: the call of validatePath is commented out
parsePath(path, save) ==
    With(Split(TrimPrefix(path, <<"/">>), "/"), LAMBDA parts :
    IF Len(parts) < 3 THEN Parsed(<<>>, zeroProcessingOptions, "Invalid path")
    ELSE IF resizeTypes(parts[2]) # "" THEN parsePathSimple(Tail(parts), save)
    ELSE parsePathAdvanced(Tail(parts), save))

(***************************************************************************)
(* Signature verification.  validatePath is called by server.go but its    *)
(* body is not part of the sources; it follows the specification: the      *)
(* token must be the MAC of the path after the token under one of the      *)
(* configured (key, salt) pairs, and with no pair configured every token   *)
(* is accepted.  The MAC is an abstract position-weighted checksum.        *)
(***************************************************************************)
PathAlphabet == B64Alphabet \o <<"/", ":", ".", "+">>

CharCode(c) == CHOOSE i \in 1..Len(PathAlphabet) : PathAlphabet[i] = c

RECURSIVE Checksum(_, _)
Checksum(s, i) ==
    IF s = <<>> THEN 0
    ELSE (i * CharCode(Head(s)) + Checksum(Tail(s), i + 1)) % 4096

\* the token that signs `path` under the (key, salt) pair number k
signatureFor(k, path) ==
    With((Checksum(path, 1) + 31 * k) % 4096, LAMBDA h :
    <<B64Alphabet[(h \div 64) + 1], B64Alphabet[(h % 64) + 1]>>)

\* validatePath(token, path): "" (nil) or the error
validatePath(token, path, keys) ==
    IF keys = {} THEN ""
    ELSE IF \E k \in keys : token = signatureFor(k, path) THEN ""
    ELSE "Invalid token"

(***************************************************************************)
(* Path parsing of server.go (the positional grammar only).                *)
(***************************************************************************)
parsePathServer(path, save, keys) ==
    With(Split(TrimPrefix(path, <<"/">>), "/"), LAMBDA parts :
    IF Len(parts) < 7 THEN Parsed(<<>>, zeroProcessingOptions, "Invalid path")
    ELSE
    With(validatePath(parts[1], TrimPrefix(path, <<"/">> \o parts[1]), keys),
         LAMBDA verr :
    IF verr # "" THEN Parsed(<<>>, zeroProcessingOptions, verr)
    ELSE IF resizeTypes(parts[2]) = ""
    THEN Parsed(<<>>, zeroProcessingOptions, "Invalid resize type")
    ELSE
    With(Atoi(parts[3]), LAMBDA w :
    With([zeroProcessingOptions EXCEPT !.Resize = resizeTypes(parts[2]),
                                       !.Width = w.v], LAMBDA po2 :
    IF w.err # "" THEN Parsed(<<>>, po2, "Invalid width")
    ELSE
    With(Atoi(parts[4]), LAMBDA h :
    With([po2 EXCEPT !.Height = h.v], LAMBDA po3 :
    IF h.err # "" THEN Parsed(<<>>, po3, "Invalid height")
    ELSE IF gravityTypes(parts[5]) = ""
    THEN Parsed(<<>>, po3, "Invalid gravity")
    ELSE
    With([po3 EXCEPT !.Gravity = gravityTypes(parts[5]),
                     !.Enlarge = (parts[6] # <<"0">>)], LAMBDA po4 :
    With(Split(Join(SliceFrom(parts, 6), <<>>), "."), LAMBDA filenameParts :
    With(IF Len(filenameParts) < 2 THEN imageTypes(<<"j", "p", "g">>)
         ELSE imageTypes(filenameParts[2]), LAMBDA fmt :
    IF fmt = "" THEN Parsed(<<>>, po4, "Invalid image format")
    ELSE IF fmt \notin save
    THEN Parsed(<<>>, [po4 EXCEPT !.Format = fmt],
                "Resulting image type not supported")
    ELSE
    With(DecodeString(filenameParts[1]), LAMBDA d :
    IF d.err # ""
    THEN Parsed(<<>>, [po4 EXCEPT !.Format = fmt], "Invalid filename encoding")
    ELSE Parsed(d.bytes, [po4 EXCEPT !.Format = fmt], "")))))))))))

(***************************************************************************)
(* url.ParseRequestURI, that is parse(rawURL, true) of net/url: the        *)
(* control bytes, "*", getScheme, the query cut off, the opaque and the    *)
(* rootless forms, parseAuthority and setPath.  Strings are byte sequences *)
(* here.                                                                   *)
(***************************************************************************)
IsLetterByte(b) == (b >= 65 /\ b <= 90) \/ (b >= 97 /\ b <= 122)

IsDigitByte(b) == b >= 48 /\ b <= 57

IsSchemeByte(b) == IsLetterByte(b) \/ IsDigitByte(b) \/ b \in {43, 45, 46}

\* ishex
IsHexByte(b) == IsDigitByte(b) \/ (b >= 65 /\ b <= 70) \/ (b >= 97 /\ b <= 102)

\* getScheme: the length of the scheme, 0 when there is none, -1 on ":" first
SchemeLen(u) ==
    LET colons == {i \in 1..Len(u) : u[i] = 58 /\ \A j \in 1..(i - 1) : IsSchemeByte(u[j])}
    IN  IF u # <<>> /\ u[1] = 58 THEN -1
        ELSE IF colons = {} \/ ~IsLetterByte(u[1]) THEN 0
        ELSE (CHOOSE i \in colons : \A j \in colons : i <= j) - 1

\* strings.IndexByte and strings.LastIndexByte, 1-based; 0 when b is absent
IndexByte(u, b) ==
    IF \A i \in 1..Len(u) : u[i] # b THEN 0
    ELSE CHOOSE i \in 1..Len(u) : u[i] = b /\ \A j \in 1..(i - 1) : u[j] # b

LastIndexByte(u, b) ==
    IF \A i \in 1..Len(u) : u[i] # b THEN 0
    ELSE CHOOSE i \in 1..Len(u) : u[i] = b /\ \A j \in (i + 1)..Len(u) : u[j] # b

\* the "%" at i is not followed by two hex digits
BadEscapeAt(u, i) ==
    u[i] = 37 /\ ~(i + 2 <= Len(u) /\ IsHexByte(u[i + 1]) /\ IsHexByte(u[i + 2]))

\* shouldEscape(c, encodeHost)
shouldEscapeHost(c) ==
    ~(\/ IsLetterByte(c) \/ IsDigitByte(c)
      \/ c \in {33, 36, 38, 39, 40, 41, 42, 43, 44, 59, 61, 58, 91, 93, 60, 62, 34}
      \/ c \in {45, 95, 46, 126})

\* unhex of a hex digit
unhex(b) ==
    IF IsDigitByte(b) THEN b - 48
    ELSE IF b >= 97 THEN b - 97 + 10
    ELSE b - 65 + 10

\* the error unescape finds at byte i, "" when there is none; mode is
\* "path", "user", "host" or "zone".  In a host "%XY" stands for a byte
\* from 0x80 on or is "%25"; in a zone it is "%25", "%20" or a byte that
\* may be written in a host as it is
unescapeErrAt(u, i, mode) ==
    IF u[i] = 37
    THEN IF BadEscapeAt(u, i) THEN "invalid URL escape"
         ELSE IF mode = "host" /\ unhex(u[i + 1]) < 8
                 /\ SubSeq(u, i, i + 2) # <<37, 50, 53>>
         THEN "invalid URL escape"
         ELSE IF mode = "zone" /\ SubSeq(u, i, i + 2) # <<37, 50, 53>>
                 /\ unhex(u[i + 1]) * 16 + unhex(u[i + 2]) # 32
                 /\ shouldEscapeHost(unhex(u[i + 1]) * 16 + unhex(u[i + 2]))
         THEN "invalid URL escape"
         ELSE ""
    ELSE IF mode \in {"host", "zone"} /\ u[i] < 128 /\ shouldEscapeHost(u[i])
    THEN "invalid character in host name"
    ELSE ""

\* the error of unescape(u, mode): that of the first byte that has one
unescapeErr(u, mode) ==
    IF \A i \in 1..Len(u) : unescapeErrAt(u, i, mode) = "" THEN ""
    ELSE unescapeErrAt(u, CHOOSE i \in 1..Len(u) :
                              /\ unescapeErrAt(u, i, mode) # ""
                              /\ \A j \in 1..(i - 1) : unescapeErrAt(u, j, mode) = "",
                       mode)

\* validOptionalPort
validOptionalPort(port) ==
    \/ port = <<>>
    \/ port[1] = 58 /\ \A i \in 2..Len(port) : IsDigitByte(port[i])

\* the index of the first "%25" of u, 0 when there is none
IndexZone(u) ==
    LET at == {i \in 1..(Len(u) - 2) : SubSeq(u, i, i + 2) = <<37, 50, 53>>}
    IN  IF at = {} THEN 0 ELSE CHOOSE i \in at : \A j \in at : i <= j

\* the first of the errors that is not ""
firstErr(errs) ==
    IF \A i \in 1..Len(errs) : errs[i] = "" THEN ""
    ELSE errs[CHOOSE i \in 1..Len(errs) :
                 errs[i] # "" /\ \A j \in 1..(i - 1) : errs[j] = ""]

\* the error of parseHost
parseHost(host) ==
    IF host # <<>> /\ host[1] = 91
    THEN With(LastIndexByte(host, 93), LAMBDA i :
         IF i = 0 THEN "missing ']' in host"
         ELSE IF ~validOptionalPort(SubSeq(host, i + 1, Len(host)))
         THEN "invalid port after host"
         ELSE With(IndexZone(SubSeq(host, 1, i - 1)), LAMBDA zone :
              IF zone > 0
              THEN firstErr(<<unescapeErr(SubSeq(host, 1, zone - 1), "host"),
                              unescapeErr(SubSeq(host, zone, i - 1), "zone"),
                              unescapeErr(SubSeq(host, i, Len(host)), "host")>>)
              ELSE unescapeErr(host, "host")))
    ELSE With(LastIndexByte(host, 58), LAMBDA i :
         IF i > 0 /\ ~validOptionalPort(SubSeq(host, i, Len(host)))
         THEN "invalid port after host"
         ELSE unescapeErr(host, "host"))

\* validUserinfo
validUserinfo(u) ==
    \A i \in 1..Len(u) :
       \/ IsLetterByte(u[i]) \/ IsDigitByte(u[i])
       \/ u[i] \in {45, 46, 95, 58, 126, 33, 36, 38, 39, 40, 41, 42, 43, 44, 59, 61,
                    37, 64}

\* the error of parseAuthority
parseAuthority(authority) ==
    With(LastIndexByte(authority, 64), LAMBDA i :
    With(parseHost(SubSeq(authority, i + 1, Len(authority))), LAMBDA hostErr :
         IF hostErr # "" THEN hostErr
         ELSE IF i = 0 THEN ""
         ELSE With(SubSeq(authority, 1, i - 1), LAMBDA userinfo :
              IF ~validUserinfo(userinfo) THEN "net/url: invalid userinfo"
              ELSE With(IndexByte(userinfo, 58), LAMBDA c :
                   IF c = 0 THEN unescapeErr(userinfo, "user")
                   ELSE firstErr(<<unescapeErr(SubSeq(userinfo, 1, c - 1), "user"),
                                   unescapeErr(SubSeq(userinfo, c + 1, Len(userinfo)),
                                               "user")>>)))))

\* parse after getScheme: rest is what follows the scheme
parseRest(hasScheme, rest0) ==
    With(IndexByte(rest0, 63), LAMBDA q :
    With(IF q = 0 THEN rest0 ELSE SubSeq(rest0, 1, q - 1), LAMBDA rest :
         IF rest = <<>> \/ rest[1] # 47
         THEN IF hasScheme THEN "" ELSE "invalid URI for request"
         ELSE IF hasScheme /\ Len(rest) >= 2 /\ rest[2] = 47
         THEN With(SubSeq(rest, 3, Len(rest)), LAMBDA after :
              With(IndexByte(after, 47), LAMBDA slash :
              firstErr(<<parseAuthority(IF slash = 0 THEN after
                                        ELSE SubSeq(after, 1, slash - 1)),
                         unescapeErr(IF slash = 0 THEN <<>>
                                     ELSE SubSeq(after, slash, Len(after)),
                                     "path")>>)))
         ELSE unescapeErr(rest, "path")))

\* the error of url.ParseRequestURI(u), "" when it is nil
ParseRequestURI(u) ==
    IF u = <<>> THEN "empty url"
    ELSE IF \E i \in 1..Len(u) : u[i] < 32 \/ u[i] = 127
    THEN "invalid control character in URL"
    ELSE IF u = <<42>> THEN ""
    ELSE IF SchemeLen(u) = -1 THEN "missing protocol scheme"
    ELSE parseRest(SchemeLen(u) > 0,
                   IF SchemeLen(u) > 0 THEN SubSeq(u, SchemeLen(u) + 2, Len(u))
                   ELSE u)

(***************************************************************************)
(* State.                                                                  *)
(***************************************************************************)
VARIABLES
    vipsSave,   \* vipsTypeSupportSave of the old backend: the types it can save
    pPath,      \* parsing: the request path handed to parsePath
    pStage,     \* parsing: "input", "parsed" or "reapplied"
    pRes,       \* parsing: the (url, options, error) returned by parsePath
    pAgain,     \* parsing: the result of applying the directives once more
    conf,       \* server: the configuration read at startup
    reqs,       \* server: the state of each request being served
    sem,        \* server: the number of tokens in the channel httpHandler.sem
    vipsLoad,   \* processing: vipsTypeSupportLoad, the types the backend loads
    prReq,      \* processing: the options processImage was called with
    prPo,       \* processing: the options as processImage has rewritten them
    prImg,      \* processing: the source image data (Type, Data)
    prPc,       \* processing: the position inside processImage
    prOut,      \* processing: the returned bytes
    prErr,      \* processing: the returned error
    prStages,   \* processing: the backend stages run so far, in order
    scIn,       \* scaling: the arguments calcScale is called with
    scPc,       \* scaling: "input" or "done"
    scOut,      \* scaling: the scale returned by calcScale
    dlConf,     \* download: MaxSrcFileSize, MaxSrcDimension, MaxSrcResolution
    dlSrc,      \* download: the response (Content-Length, reads, header)
    dlPc,       \* download: the position inside readAndCheckImage
    dlRd,       \* download: the reader (reads done, limitReader.left, buf)
    dlErr,      \* download: the returned error
    dlOut,      \* download: the returned imageData
    anIn,       \* animation: the source, the options and the configuration
    anMain,     \* animation: position and locals of transformAnimated
    anErr,      \* animation: the variable err shared by the frame goroutines
    anW,        \* animation: the position of each frame goroutine
    anGrp,      \* animation: the first error returned to the errgroup
    anFrames,   \* animation: the indices of the slice frames that are set
    anOut,      \* animation: the outcome and the metadata of the result
    crIn,       \* cropping: the source size and the options of the request
    crPc,       \* cropping: the position inside transformImage
    crSt,       \* cropping: the locals of transformImage before the crops
    crCalls,    \* cropping: the calls of cropImage, in order
    trIn,       \* stages: the image and the options transformImage works on
    trPc,       \* stages: the position inside transformImage
    trOps,      \* stages: the backend calls made so far, in order
    trErr,      \* stages: the error transformImage ended with
    trSt,       \* stages: the locals of transformImage: scale, crop and image size
    wmIn,       \* watermark: the image size and the watermark options
    wmPc,       \* watermark: the position inside applyWatermark
    wmSt,       \* watermark: the calls made and what prepareWatermark returned
    gfIn,       \* gif: the size of a frame, the frame count and the request's options
    gfPo,       \* gif: the processingOptions all frame goroutines point to
    gfW         \* gif: the position and the locals of each frame goroutine

parseVars == <<pPath, pStage, pRes, pAgain>>

serverVars == <<conf, reqs, sem>>

processVars == <<vipsLoad, prReq, prPo, prImg, prPc, prOut, prErr, prStages>>

scaleVars == <<scIn, scPc, scOut>>

downloadVars == <<dlConf, dlSrc, dlPc, dlRd, dlErr, dlOut>>

animVars == <<anIn, anMain, anErr, anW, anGrp, anFrames, anOut>>

\* the variables of the parts added to the three above
cropVars == <<crIn, crPc, crSt, crCalls>>

\* the variables of the stages modelled after transformAnimated
transformVars == <<trIn, trPc, trOps, trErr, trSt>>

\* the variables of applyWatermark
watermarkVars == <<wmIn, wmPc, wmSt>>

\* the variables of transformGif
gifVars == <<gfIn, gfPo, gfW>>

pipeVars == <<cropVars, transformVars, watermarkVars, gifVars>>

auxVars == <<scaleVars, downloadVars, animVars, pipeVars>>

(***************************************************************************)
(* Generated request paths.                                                *)
(***************************************************************************)
sWidth == <<"w", "i", "d", "t", "h">>
sHeight == <<"h", "e", "i", "g", "h", "t">>
sSize == <<"s", "i", "z", "e">>
sResize == <<"r", "e", "s", "i", "z", "e">>
sEnlarge == <<"e", "n", "l", "a", "r", "g", "e">>
sGravity == <<"g", "r", "a", "v", "i", "t", "y">>
sFit == <<"f", "i", "t">>
sFill == <<"f", "i", "l", "l">>

\* a directive segment name:arg:arg...
Directive(name, args) == Join(<<name>> \o args, <<":">>)

\* a path /seg/seg/...
PathOf(segs) == <<"/">> \o Join(segs, <<"/">>)

\* arguments offered for a dimension: 10, 7, 0, -5, a, the empty string, and
\* 2147483648, which an int of 64 bits holds
DimArgs ==
    {<<"1", "0">>, <<"7">>, <<"0">>, <<"-", "5">>, <<"a">>, <<>>,
     <<"2", "1", "4", "7", "4", "8", "3", "6", "4", "8">>}

Directives ==
    {Directive(sWidth, <<a>>) : a \in DimArgs}
    \cup {Directive(sHeight, <<a>>) : a \in DimArgs \ {<<"0">>}}
    \cup {Directive(sSize, <<<<"1", "0">>, <<"7">>, <<"1">>>>),
          Directive(sSize, <<<<"a">>, <<"7">>>>),
          Directive(sResize, <<sFill, <<"7">>, <<"-", "5">>>>),
          Directive(sResize, <<<<"b", "a", "d">>, <<"7">>>>),
          Directive(sEnlarge, <<<<"1">>>>),
          Directive(sGravity, <<<<"s", "m">>>>),
          Directive(sGravity, <<<<"x", "x">>>>),
          Directive(sWidth, <<<<"7">>, <<"7">>>>),
          Directive(<<"f", "o", "o">>, <<<<"1">>>>)}

\* source segments: base64 of "/a" alone, with known and unknown extensions,
\* and a segment that is not base64
UrlSegments ==
    {<<"L", "2", "E">>,
     <<"L", "2", "E", ".", "p", "n", "g">>,
     <<"L", "2", "E", ".", "w", "e", "b", "p">>,
     <<"L", "2", "E", ".", "b", "m", "p">>,
     <<"L">>}

RECURSIVE SeqsUpTo(_, _)
\* the sequences over S of length at most n
SeqsUpTo(S, n) ==
    IF n = 0 THEN {<<>>}
    ELSE LET shorter == SeqsUpTo(S, n - 1)
         IN  shorter \cup {Append(q, x) : q \in shorter, x \in S}

sSig == <<"s", "g">>

AdvancedPaths ==
    {PathOf(<<sSig>> \o ds \o <<u>>) :
        ds \in SeqsUpTo(Directives, MaxDirectives), u \in UrlSegments}

SimplePaths ==
    {PathOf(<<sSig, r, w, h, g, <<"1">>, u>>) :
        r \in {sFit, sFill}, w \in DimArgs, h \in DimArgs,
        g \in {<<"c", "e">>, <<"x", "x">>}, u \in UrlSegments}

ShortPaths ==
    {PathOf(<<sSig, sFit>>), PathOf(<<sSig, sFit, <<"7">>, <<"7">>>>),
     PathOf(<<sSig, Directive(sWidth, <<<<"7">>>>)>>)}

ParsePaths == AdvancedPaths \cup SimplePaths \cup ShortPaths

\* the builds of the old backend: WebP saving is optional
SaveSets == {{"JPEG", "PNG", "WEBP"}, {"JPEG", "PNG"}}

(***************************************************************************)
(* Parsing a path, and applying its directives a second time.              *)
(***************************************************************************)
NoParse == Parsed(<<>>, zeroProcessingOptions, "")
NoApply == Applied(zeroProcessingOptions, "")

\* the segments of a path after the signature
PathParts(path) == Tail(Split(TrimPrefix(path, <<"/">>), "/"))

\* the path is handled by parsePathAdvanced
IsAdvanced(path) ==
    LET parts == Split(TrimPrefix(path, <<"/">>), "/")
    IN  Len(parts) >= 3 /\ resizeTypes(parts[2]) = ""

RECURSIVE DirectiveSegments(_)
\* the leading segments that carry a ":", as parsePathAdvanced walks them
DirectiveSegments(parts) ==
    IF parts = <<>> \/ Len(Split(Head(parts), ":")) = 1 THEN <<>>
    ELSE <<Head(parts)>> \o DirectiveSegments(Tail(parts))

ParseInit ==
    /\ pPath \in ParsePaths
    /\ pStage = "input"
    /\ pRes = NoParse
    /\ pAgain = NoApply

ParsePath ==
    /\ pStage = "input"
    /\ pRes' = parsePath(pPath, vipsSave)
    /\ pStage' = "parsed"
    /\ UNCHANGED <<pPath, pAgain, vipsSave, serverVars, processVars, auxVars>>

ApplyAgain ==
    /\ pStage = "parsed"
    /\ pRes.err = ""
    /\ IsAdvanced(pPath)
    /\ \E o \in {advancedOptions(DirectiveSegments(PathParts(pPath)), 0, pRes.po)} :
         pAgain' = Applied(o.po, o.err)
    /\ pStage' = "reapplied"
    /\ UNCHANGED <<pPath, pRes, vipsSave, serverVars, processVars, auxVars>>

(***************************************************************************)
(* The request orchestrator (server.go).                                   *)
(***************************************************************************)
Requests == 1..NumRequests

\* status codes; those of errors.go and timer.go are not part of the
\* sources and are taken from the error table of the specification
StatusOK == 200
StatusNotModified == 304
StatusForbidden == 403
StatusNotFound == 404
StatusMethodNotAllowed == 405
StatusInternalError == 500
StatusTimeout == 504

sBearer == <<"B", "e", "a", "r", "e", "r", "+">>

\* checkSecret(s) against conf.Secret ("+" stands for the space)
checkSecret(hdr, secret) ==
    IF Len(secret) = 0 THEN TRUE
    ELSE /\ Len(hdr) >= Len(sBearer)
         /\ SubSeq(hdr, 1, Len(sBearer)) = sBearer
         /\ TrimPrefix(hdr, sBearer) = secret

\* the Authorization headers of the generated requests
AuthHeaders == {<<>>, sBearer \o <<"k">>, sBearer \o <<"x">>}

Methods == {"GET", "OPTIONS", "POST"}

sRest == <<<<"1", "0">>, <<"7">>, <<"c", "e">>, <<"1">>>>

\* a path signed under the (key, salt) pair k
SignedPath(k, segs) ==
    <<"/">> \o signatureFor(k, PathOf(segs)) \o PathOf(segs)

\* a path whose token is the signature of some other path
ForgedPath(segs) ==
    <<"/">> \o signatureFor(1, <<"/">>) \o PathOf(segs)

\* the request paths: /health, the positional and the directive grammar with
\* a valid and with a forged token, a source that is no request URI, and a
\* path that is too short
ServerPaths ==
    << <<"/", "h", "e", "a", "l", "t", "h">>,
       SignedPath(2, <<sFit>> \o sRest \o <<<<"L", "2", "E">>>>),
       ForgedPath(<<sFit>> \o sRest \o <<<<"L", "2", "E">>>>),
       SignedPath(1, <<Directive(sWidth, <<<<"7">>>>), <<"L", "2", "E">>>>),
       ForgedPath(<<Directive(sWidth, <<<<"7">>>>), <<"L", "2", "E">>>>),
       SignedPath(1, <<sFill>> \o sRest \o <<<<"Y", "Q">>>>),
       SignedPath(1, <<sFit>>) >>

\* the parsePath the handler is linked with: both files define one
linkedParsePath(path) ==
    IF conf.linked = "server.go" THEN parsePathServer(path, vipsSave, conf.keys)
    ELSE parsePath(path, vipsSave)

\* the token of a path verifies against the configured pairs
SignatureValid(path) ==
    LET parts == Split(TrimPrefix(path, <<"/">>), "/")
    IN  validatePath(parts[1], TrimPrefix(path, <<"/">> \o parts[1]), conf.keys) = ""

\* status and body are what has been written to the client; panic is the
\* kind of the value the handler panicked with and carried the status of an
\* imgproxyError on its way to the deferred recovery
NewRequest ==
    [pc |-> "idle", path |-> 0, status |-> 0, fetched |-> FALSE,
     processed |-> FALSE, slot |-> FALSE, waited |-> FALSE,
     etag |-> "none", panic |-> "none", carried |-> 0, body |-> "none"]

\* the request has passed h.lock() and not yet run the deferred h.unlock()
Admitted(r) ==
    reqs[r].pc \in {"admitted", "download", "etag", "process", "unlock"}

\* a send that never blocks, as on a channel without a capacity limit
lockUnbounded == sem' = sem + 1

\* h.sem <- struct{}{}: blocks while the channel is full
lock == sem < Concurrency /\ sem' = sem + 1

\* <-h.sem: blocks while the channel is empty
unlock == sem > 0 /\ sem' = sem - 1

\* the kinds of value a panic carries: an imgproxyError, another error (a
\* runtime error), or a value that is no error (a string)
PanicValues == {"imgproxyError", "error", "other"}

\* respondWithError: the status of the error and its public message
respondWithError(status) == [status |-> status, body |-> "message"]

\* the deferred function of ServeHTTP on the recovered value: the assertion
\* r.(error) panics again on a value that is no error, and nothing is written
recovered(kind, carried) ==
    IF kind = "imgproxyError" THEN respondWithError(carried)
    ELSE IF kind = "error" THEN respondWithError(StatusInternalError)
    ELSE [status |-> 0, body |-> "none"]

\* the handler returns past defer h.unlock() with its response written: the
\* deferred unlock is what runs next
Finish(r, status, fetched, processed) ==
    /\ reqs' = [reqs EXCEPT ![r].pc = "unlock", ![r].status = status,
                            ![r].fetched = fetched, ![r].processed = processed,
                            ![r].body = IF status = StatusOK /\ processed
                                        THEN "image" ELSE "message"]
    /\ UNCHANGED sem

\* a panic that unwinds past a handler without the deferred unlock
PanicHolding(r, kind, fetched, processed) ==
    /\ reqs' = [reqs EXCEPT ![r].pc = "recover", ![r].panic = kind,
                            ![r].fetched = fetched, ![r].processed = processed]
    /\ UNCHANGED sem

\* a stage panics with a value that is not an imgproxyError: the deferred
\* unlock runs next, the deferred recovery after it
Panic(r, kind, fetched, processed) ==
    /\ reqs' = [reqs EXCEPT ![r].pc = "unlock", ![r].panic = kind,
                            ![r].fetched = fetched, ![r].processed = processed]
    /\ UNCHANGED sem

\* panic(e) with an imgproxyError e of the given status, past h.lock()
Raise(r, status, fetched, processed) ==
    /\ reqs' = [reqs EXCEPT ![r].pc = "unlock", ![r].panic = "imgproxyError",
                            ![r].carried = status,
                            ![r].fetched = fetched, ![r].processed = processed]
    /\ UNCHANGED sem

\* the deferred h.unlock() (line 235), the first of the deferred calls to
\* run; after a panic the deferred recovery follows
Unlock(r) ==
    /\ reqs[r].pc = "unlock"
    /\ unlock
    /\ reqs' = [reqs EXCEPT ![r].pc = IF reqs[r].panic = "none"
                                      THEN "done" ELSE "recover"]
    /\ UNCHANGED <<conf, vipsSave, parseVars, processVars, auxVars>>

\* the deferred function of lines 207-215 after a panic past h.lock()
Recover(r) ==
    /\ reqs[r].pc = "recover"
    /\ reqs' = [reqs EXCEPT
                  ![r].pc = "done", ![r].carried = 0,
                  ![r].status = recovered(reqs[r].panic, reqs[r].carried).status,
                  ![r].body = recovered(reqs[r].panic, reqs[r].carried).body]
    /\ UNCHANGED <<sem, conf, vipsSave, parseVars, processVars, auxVars>>

\* ServeHTTP up to h.lock(): CORS, OPTIONS, the method and the secret
Arrive(r) ==
    /\ reqs[r].pc \in {"idle", "done"}
    /\ \E method \in Methods, hdr \in AuthHeaders :
         IF method = "OPTIONS"
         THEN reqs' = [reqs EXCEPT ![r] = [NewRequest EXCEPT !.pc = "done",
                                                            !.status = StatusOK]]
         ELSE IF method # "GET"
         THEN reqs' = [reqs EXCEPT ![r] = [NewRequest EXCEPT !.pc = "done",
                          !.panic = "imgproxyError", !.body = "message",
                          !.status = StatusMethodNotAllowed]]
         ELSE IF ~checkSecret(hdr, conf.secret)
         THEN reqs' = [reqs EXCEPT ![r] = [NewRequest EXCEPT !.pc = "done",
                          !.panic = "imgproxyError", !.body = "message",
                          !.status = StatusForbidden]]
         ELSE reqs' = [reqs EXCEPT ![r] = [NewRequest EXCEPT !.pc = "lock"]]
    /\ UNCHANGED <<sem, conf, vipsSave, parseVars, processVars, auxVars>>

\* conf.WriteTimeout passes after the arrival of a request that is blocked
\* in h.lock() on a full channel; the record keeps this up to the statement
\* after h.lock(), where the handler goes on
WaitElapse(r) ==
    /\ reqs[r].pc = "lock"
    /\ sem = Concurrency
    /\ ~reqs[r].waited
    /\ reqs' = [reqs EXCEPT ![r].waited = TRUE]
    /\ UNCHANGED <<sem, conf, vipsSave, parseVars, processVars, auxVars>>

\* h.lock(); defer h.unlock()
Lock(r) ==
    /\ reqs[r].pc = "lock"
    /\ lock
    /\ reqs' = [reqs EXCEPT ![r].pc = "admitted", ![r].slot = TRUE]
    /\ UNCHANGED <<conf, vipsSave, parseVars, processVars, auxVars>>

\* the /health answer, startTimer, parsePath and url.ParseRequestURI: the
\* request is past h.lock() and runs under the deadline of the timer t
Parse(r) ==
    /\ reqs[r].pc = "admitted"
    /\ \E p \in 1..Len(ServerPaths) :
         \E res \in {linkedParsePath(ServerPaths[p])} :
             IF p = 1
             THEN reqs' = [reqs EXCEPT ![r].pc = "unlock", ![r].path = p,
                                      ![r].status = StatusOK,
                                      ![r].waited = FALSE,
                                      ![r].body = "message"]
             ELSE IF res.err # "" \/ ParseRequestURI(res.url) # ""
             THEN reqs' = [reqs EXCEPT ![r].pc = "unlock", ![r].path = p,
                                      ![r].panic = "imgproxyError",
                                      ![r].waited = FALSE,
                                      ![r].carried = StatusNotFound]
             ELSE reqs' = [reqs EXCEPT ![r].pc = "download", ![r].path = p,
                                      ![r].waited = FALSE]
    /\ UNCHANGED sem
    /\ UNCHANGED <<conf, vipsSave, parseVars, processVars, auxVars>>

\* the outcomes of a stage that calls into the libraries: it returns, returns
\* an error, or panics with a runtime error or with a value that is no error
StageOutcomes == {"ok", "failed", "error", "other"}

\* downloadImage and the t.Check() after it
Download(r) ==
    /\ reqs[r].pc = "download"
    /\ \E out \in StageOutcomes, expired \in BOOLEAN :
         IF out = "failed" THEN Raise(r, StatusNotFound, TRUE, FALSE)
         ELSE IF out # "ok" THEN Panic(r, out, TRUE, FALSE)
         ELSE IF expired THEN Raise(r, StatusTimeout, TRUE, FALSE)
         ELSE /\ reqs' = [reqs EXCEPT ![r].pc = "etag", ![r].fetched = TRUE]
              /\ UNCHANGED sem
    /\ UNCHANGED <<conf, vipsSave, parseVars, processVars, auxVars>>

\* a comparison that never finds the two tags equal
etagHitNever(enabled, match) == FALSE

\* eTag == r.Header.Get("If-None-Match"), when conf.ETagEnabled
etagHit(enabled, match) == enabled /\ match

\* the ETag comparison and the t.Check() after it
ETag(r) ==
    /\ reqs[r].pc = "etag"
    /\ \E match \in BOOLEAN, expired \in BOOLEAN :
         \E tag \in {IF ~conf.etag THEN "none"
                     ELSE IF match THEN "match" ELSE "differs"} :
           IF etagHit(conf.etag, match)
           THEN reqs' = [reqs EXCEPT ![r].pc = "unlock", ![r].etag = tag,
                                    ![r].panic = "imgproxyError",
                                    ![r].carried = StatusNotModified]
           ELSE IF expired
           THEN reqs' = [reqs EXCEPT ![r].pc = "unlock", ![r].etag = tag,
                                    ![r].panic = "imgproxyError",
                                    ![r].carried = StatusTimeout]
           ELSE reqs' = [reqs EXCEPT ![r].pc = "process", ![r].etag = tag]
    /\ UNCHANGED sem
    /\ UNCHANGED <<conf, vipsSave, parseVars, processVars, auxVars>>

\* processImage, the t.Check() after it and respondWithImage
Process(r) ==
    /\ reqs[r].pc = "process"
    /\ \E out \in StageOutcomes, expired \in BOOLEAN :
         IF out = "failed" THEN Raise(r, StatusInternalError, TRUE, TRUE)
         ELSE IF out # "ok" THEN Panic(r, out, TRUE, TRUE)
         ELSE IF expired THEN Raise(r, StatusTimeout, TRUE, TRUE)
         ELSE Finish(r, StatusOK, TRUE, TRUE)
    /\ UNCHANGED <<conf, vipsSave, parseVars, processVars, auxVars>>

Configs ==
    [linked : {"server.go", "processing_options.go"},
     keys : {{}, {1, 2}},
     etag : BOOLEAN,
     secret : {<<>>, <<"k">>}]

ServerInit ==
    /\ conf \in Configs
    /\ reqs = [r \in Requests |-> NewRequest]
    /\ sem = 0

ServerIdle ==
    /\ conf = [linked |-> "server.go", keys |-> {}, etag |-> FALSE, secret |-> <<>>]
    /\ reqs = [r \in Requests |-> NewRequest]
    /\ sem = 0

ParseIdle ==
    /\ pPath = <<>>
    /\ pStage = "idle"
    /\ pRes = NoParse
    /\ pAgain = NoApply

(***************************************************************************)
(* processImage (process.go): target format, SVG pre-pass, load,           *)
(* transform, save.                                                        *)
(***************************************************************************)
ImageTypes ==
    {"UNKNOWN", "JPEG", "PNG", "WEBP", "GIF", "ICO", "SVG", "HEIC", "TIFF", "BMP"}

\* an imgproxyError as (status, message); NoError is nil
Error(code, msg) == [code |-> code, msg |-> msg]
NoError == Error(0, "")

errConvertingNonSvgToSvg ==
    Error(422, "Converting non-SVG images to SVG is not supported")

errSourceImageTypeNotSupported == Error(422, "Source image type not supported")

\* an error returned by the imaging backend
errVips == Error(500, "vips error")

\* the error of checkTimeout at an expired checkpoint: Timeout, status 504
errTimeout == Error(StatusTimeout, "Timeout")

imageTypeSaveSupport(imgtype) == imgtype = "SVG" \/ imgtype \in vipsSave

imageTypeGoodForWeb(imgtype) ==
    imgtype # "HEIC" /\ imgtype # "TIFF" /\ imgtype # "BMP"

\* a resolution that keeps every save-supported source type, good for web or not
resolveFormatAnySource(po, srcType) ==
    IF po.Format = "UNKNOWN"
    THEN IF po.PreferWebP /\ imageTypeSaveSupport("WEBP")
         THEN [po EXCEPT !.Format = "WEBP"]
         ELSE IF imageTypeSaveSupport(srcType)
         THEN [po EXCEPT !.Format = srcType]
         ELSE [po EXCEPT !.Format = "JPEG"]
    ELSE IF po.EnforceWebP /\ imageTypeSaveSupport("WEBP")
    THEN [po EXCEPT !.Format = "WEBP"]
    ELSE po

\* the target-format resolution at the head of processImage
resolveFormat(po, srcType) ==
    IF po.Format = "UNKNOWN"
    THEN IF po.PreferWebP /\ imageTypeSaveSupport("WEBP")
         THEN [po EXCEPT !.Format = "WEBP"]
         ELSE IF imageTypeSaveSupport(srcType) /\ imageTypeGoodForWeb(srcType)
         THEN [po EXCEPT !.Format = srcType]
         ELSE [po EXCEPT !.Format = "JPEG"]
    ELSE IF po.EnforceWebP /\ imageTypeSaveSupport("WEBP")
    THEN [po EXCEPT !.Format = "WEBP"]
    ELSE po

\* the bytes img.Save produces: an encoding of the image, never the source
Encoded(format, data) == <<format>> \o data

\* the builds of the backend
ProcessSaveSets ==
    {{"JPEG", "PNG", "WEBP", "GIF", "TIFF", "BMP", "HEIC"},
     {"JPEG", "PNG", "GIF", "TIFF"},
     {"PNG", "WEBP"}}

ProcessLoadSets ==
    {{"JPEG", "PNG", "WEBP", "GIF", "SVG", "HEIC", "TIFF", "BMP"},
     {"JPEG", "PNG", "WEBP", "GIF"}}

SourceData == {<<1>>, <<2, 3>>}

\* the options a request can carry: a format option names a save-supported
\* type; the WebP flags come from the Accept header and the configuration
ProcessInit ==
    /\ vipsLoad \in ProcessLoadSets
    /\ prReq \in [Format : ImageTypes, PreferWebP : BOOLEAN, EnforceWebP : BOOLEAN]
    /\ prReq.Format = "UNKNOWN" \/ imageTypeSaveSupport(prReq.Format)
    /\ prPo = prReq
    /\ prImg \in [Type : ImageTypes \ {"UNKNOWN"}, Data : SourceData]
    /\ prPc = "resolve"
    /\ prOut = <<>>
    /\ prErr = NoError
    /\ prStages = <<>>

ProcessIdle ==
    /\ vipsLoad = {}
    /\ prReq = [Format |-> "UNKNOWN", PreferWebP |-> FALSE, EnforceWebP |-> FALSE]
    /\ prPo = prReq
    /\ prImg = [Type |-> "JPEG", Data |-> <<>>]
    /\ prPc = "idle"
    /\ prOut = <<>>
    /\ prErr = NoError
    /\ prStages = <<>>

\* processImage returns (data, err)
Return(data, err) ==
    /\ prOut' = data
    /\ prErr' = err
    /\ prPc' = "done"

\* lines 1125-1136: resolve the target format
ResolveFormat ==
    /\ prPc = "resolve"
    /\ prPo' = resolveFormat(prPo, prImg.Type)
    /\ prPc' = "prepass"
    /\ UNCHANGED <<vipsLoad, prReq, prImg, prOut, prErr, prStages>>
    /\ UNCHANGED <<vipsSave, parseVars, serverVars, auxVars>>

\* a pre-pass that hands back the source bytes whatever the source type is
svgPrepassUnchecked(po, imgdata) ==
    IF po.Format = "SVG"
    THEN [returns |-> TRUE, data |-> imgdata.Data, err |-> NoError]
    ELSE IF imgdata.Type = "SVG" /\ "SVG" \notin vipsLoad
    THEN [returns |-> TRUE, data |-> <<>>, err |-> errSourceImageTypeNotSupported]
    ELSE [returns |-> FALSE, data |-> <<>>, err |-> NoError]

\* the outcome of lines 1138-1148: [returns, data, err]
svgPrepass(po, imgdata) ==
    IF po.Format = "SVG"
    THEN IF imgdata.Type # "SVG"
         THEN [returns |-> TRUE, data |-> <<>>, err |-> errConvertingNonSvgToSvg]
         ELSE [returns |-> TRUE, data |-> imgdata.Data, err |-> NoError]
    ELSE IF imgdata.Type = "SVG" /\ "SVG" \notin vipsLoad
    THEN [returns |-> TRUE, data |-> <<>>, err |-> errSourceImageTypeNotSupported]
    ELSE [returns |-> FALSE, data |-> <<>>, err |-> NoError]

\* lines 1138-1148: SVG is passed through or refused
SvgPrepass ==
    /\ prPc = "prepass"
    /\ LET o == svgPrepass(prPo, prImg)
       IN  IF o.returns THEN Return(o.data, o.err)
           ELSE prPc' = "load" /\ UNCHANGED <<prOut, prErr>>
    /\ UNCHANGED <<vipsLoad, prReq, prPo, prImg, prStages>>
    /\ UNCHANGED <<vipsSave, parseVars, serverVars, auxVars>>

\* lines 1150-1191: the ICO page is extracted and the image is loaded
Load ==
    /\ prPc = "load"
    /\ \E icoFails \in BOOLEAN, inner \in vipsLoad \cup {"JPEG"}, loadFails \in BOOLEAN :
         IF prImg.Type = "ICO" /\ (icoFails \/ inner \notin vipsLoad)
         THEN /\ Return(<<>>, Error(500, "Can't load from ICO"))
              /\ UNCHANGED <<prImg, prStages>>
         ELSE /\ prImg' = IF prImg.Type = "ICO" THEN [prImg EXCEPT !.Type = inner]
                          ELSE prImg
              /\ prStages' = Append(prStages, "load")
              /\ IF loadFails THEN Return(<<>>, errVips)
                 ELSE prPc' = "transform" /\ UNCHANGED <<prOut, prErr>>
    /\ UNCHANGED <<vipsLoad, prReq, prPo>>
    /\ UNCHANGED <<vipsSave, parseVars, serverVars, auxVars>>

\* lines 1193-1201: transformAnimated or transformImage
Transform ==
    /\ prPc = "transform"
    /\ prStages' = Append(prStages, "transform")
    /\ \E fails \in BOOLEAN :
         IF fails THEN Return(<<>>, errVips)
         ELSE prPc' = "save" /\ UNCHANGED <<prOut, prErr>>
    /\ UNCHANGED <<vipsLoad, prReq, prPo, prImg>>
    /\ UNCHANGED <<vipsSave, parseVars, serverVars, auxVars>>

\* lines 1203-1212: the cast for GIF and img.Save
Save ==
    /\ prPc = "save"
    /\ prStages' = Append(prStages, "save")
    /\ \E fails \in BOOLEAN :
         IF fails THEN Return(<<>>, errVips)
         ELSE Return(Encoded(prPo.Format, prImg.Data), NoError)
    /\ UNCHANGED <<vipsLoad, prReq, prPo, prImg>>
    /\ UNCHANGED <<vipsSave, parseVars, serverVars, auxVars>>

(***************************************************************************)
(* float64.  A float64 is [neg, m, e], the value (-1)^neg * m * 2^e with   *)
(* m odd, or m = 0 and e = 0 for 0.  m has up to 53 bits, more than an     *)
(* integer of TLC holds, so it is a natural number written in base 32768,  *)
(* the least significant digit first and no digit for 0.  Every operation  *)
(* rounds its exact result to 53 bits, a tie to the even mantissa, as the  *)
(* processor does.  Infinities, NaN, subnormal numbers and the sign of 0   *)
(* are left out: no value here comes near them.                            *)
(***************************************************************************)
Abs(a) == IF a < 0 THEN 0 - a ELSE a

RECURSIVE Pow2(_)
Pow2(k) == IF k = 0 THEN 1 ELSE 2 * Pow2(k - 1)

RECURSIVE BitLen(_)
BitLen(n) == IF n = 0 THEN 0 ELSE 1 + BitLen(n \div 2)

RECURSIVE NatOf(_)
NatOf(n) == IF n = 0 THEN <<>> ELSE <<n % 32768>> \o NatOf(n \div 32768)

\* the value of a natural number below 2^31
NatToInt(a) ==
    (IF Len(a) >= 1 THEN a[1] ELSE 0) + (IF Len(a) >= 2 THEN 32768 * a[2] ELSE 0)
    + (IF Len(a) >= 3 THEN 32768 * 32768 * a[3] ELSE 0)

RECURSIVE NatTrim(_)
NatTrim(a) ==
    IF a # <<>> /\ a[Len(a)] = 0 THEN NatTrim(SubSeq(a, 1, Len(a) - 1)) ELSE a

Digit(a, i) == IF i <= Len(a) THEN a[i] ELSE 0

NatBitLen(a) == IF a = <<>> THEN 0 ELSE 15 * (Len(a) - 1) + BitLen(a[Len(a)])

NatIsOdd(a) == a # <<>> /\ a[1] % 2 = 1

RECURSIVE NatCmpFrom(_, _, _)
NatCmpFrom(a, b, i) ==
    IF i = 0 THEN 0
    ELSE IF a[i] < b[i] THEN -1
    ELSE IF a[i] > b[i] THEN 1
    ELSE NatCmpFrom(a, b, i - 1)

\* -1, 0 or 1 as a is less than, equal to or greater than b
NatCmp(a, b) ==
    IF Len(a) < Len(b) THEN -1
    ELSE IF Len(a) > Len(b) THEN 1
    ELSE NatCmpFrom(a, b, Len(a))

RECURSIVE NatAddFrom(_, _, _, _)
NatAddFrom(a, b, i, carry) ==
    IF i > Len(a) /\ i > Len(b) THEN (IF carry = 0 THEN <<>> ELSE <<carry>>)
    ELSE With(Digit(a, i) + Digit(b, i) + carry, LAMBDA s :
         <<s % 32768>> \o NatAddFrom(a, b, i + 1, s \div 32768))

NatAdd(a, b) == NatAddFrom(a, b, 1, 0)

RECURSIVE NatSubFrom(_, _, _, _)
NatSubFrom(a, b, i, borrow) ==
    IF i > Len(a) THEN <<>>
    ELSE With(a[i] - Digit(b, i) - borrow, LAMBDA s :
         IF s < 0 THEN <<s + 32768>> \o NatSubFrom(a, b, i + 1, 1)
         ELSE <<s>> \o NatSubFrom(a, b, i + 1, 0))

\* a - b for a >= b
NatSub(a, b) == NatTrim(NatSubFrom(a, b, 1, 0))

RECURSIVE NatMulSmallFrom(_, _, _, _)
NatMulSmallFrom(a, k, i, carry) ==
    IF i > Len(a) THEN (IF carry = 0 THEN <<>> ELSE <<carry>>)
    ELSE With(a[i] * k + carry, LAMBDA s :
         <<s % 32768>> \o NatMulSmallFrom(a, k, i + 1, s \div 32768))

\* a * k for k < 32768
NatMulSmall(a, k) == IF k = 0 THEN <<>> ELSE NatMulSmallFrom(a, k, 1, 0)

RECURSIVE NatMul(_, _)
NatMul(a, b) ==
    IF a = <<>> \/ b = <<>> THEN <<>>
    ELSE With(NatMul(a, Tail(b)), LAMBDA high :
         NatAdd(NatMulSmall(a, b[1]), IF high = <<>> THEN <<>> ELSE <<0>> \o high))

RECURSIVE NatDivSmallFrom(_, _, _, _)
NatDivSmallFrom(a, d, i, r) ==
    IF i = 0 THEN [q |-> <<>>, r |-> r]
    ELSE With(r * 32768 + a[i], LAMBDA cur :
         With(NatDivSmallFrom(a, d, i - 1, cur % d), LAMBDA low :
         [q |-> low.q \o <<cur \div d>>, r |-> low.r]))

\* quotient q and remainder r of a by d, for 0 < d <= 32768
NatDivSmall(a, d) ==
    With(NatDivSmallFrom(a, d, Len(a), 0),
         LAMBDA x : [q |-> NatTrim(x.q), r |-> NatOf(x.r)])

\* a * 2^k
NatShl(a, k) ==
    IF a = <<>> THEN <<>>
    ELSE [i \in 1..(k \div 15) |-> 0] \o NatMulSmall(a, Pow2(k % 15))

\* a / 2^k rounded down
NatShr(a, k) ==
    IF k \div 15 >= Len(a) THEN <<>>
    ELSE NatDivSmall(SubSeq(a, k \div 15 + 1, Len(a)), Pow2(k % 15)).q

\* bit i of a, the least significant being bit 1
NatBit(a, i) == (Digit(a, (i - 1) \div 15 + 1) \div Pow2((i - 1) % 15)) % 2

\* the greatest digit q + x with x < 2^(j+1) and d * (q + x) <= r
RECURSIVE QuoDigit(_, _, _, _)
QuoDigit(r, d, q, j) ==
    IF j < 0 THEN q
    ELSE IF NatCmp(NatMulSmall(d, q + Pow2(j)), r) <= 0
    THEN QuoDigit(r, d, q + Pow2(j), j - 1)
    ELSE QuoDigit(r, d, q, j - 1)

\* quotient q and remainder r by d of the digits of a from digit i upwards
RECURSIVE NatDivFrom(_, _, _)
NatDivFrom(a, d, i) ==
    IF i > Len(a) THEN [q |-> <<>>, r |-> <<>>]
    ELSE With(NatDivFrom(a, d, i + 1), LAMBDA high :
         With(NatTrim(<<a[i]>> \o high.r), LAMBDA cur :
         With(QuoDigit(cur, d, 0, 14), LAMBDA digit :
         [q |-> <<digit>> \o high.q, r |-> NatSub(cur, NatMulSmall(d, digit))])))

\* quotient q and remainder r of a by d # 0
NatDiv(a, d) ==
    IF Len(d) = 1 THEN NatDivSmall(a, d[1])
    ELSE With(NatDivFrom(a, d, 1), LAMBDA x : [q |-> NatTrim(x.q), r |-> x.r])

RECURSIVE TrailingZeros(_)
TrailingZeros(n) == IF n % 2 = 1 THEN 0 ELSE 1 + TrailingZeros(n \div 2)

\* m * 2^e with the mantissa made odd
RECURSIVE Canonical(_, _, _)
Canonical(neg, m, e) ==
    IF m = <<>> THEN [neg |-> FALSE, m |-> <<>>, e |-> 0]
    ELSE IF m[1] = 0 THEN Canonical(neg, Tail(m), e + 15)
    ELSE With(TrailingZeros(m[1]), LAMBDA z :
         [neg |-> neg, m |-> NatShr(m, z), e |-> e + z])

\* m * 2^e rounded to a mantissa of bits bits, a tie to the even one
Rounded(neg, m, e, bits) ==
    With(NatBitLen(m) - bits, LAMBDA s :
    IF s <= 0 THEN Canonical(neg, m, e)
    ELSE With(NatShr(m, s), LAMBDA q :
         With(NatCmp(NatShl(NatSub(m, NatShl(q, s)), 1), NatShl(<<1>>, s)), LAMBDA c :
         Canonical(neg,
                   IF c > 0 \/ (c = 0 /\ NatIsOdd(q)) THEN NatAdd(q, <<1>>) ELSE q,
                   e + s))))

\* float64(i)
Float(i) == Canonical(i < 0, NatOf(Abs(i)), 0)

\* a * b
FMul(a, b) == Rounded(a.neg # b.neg, NatMul(a.m, b.m), a.e + b.e, 53)

\* a / b for b # 0: the quotient of the mantissas to 55 bits or more, with a
\* bit below them that says whether a remainder is left
FDiv(a, b) ==
    IF a.m = <<>> THEN a
    ELSE IF b.m = <<1>> THEN Canonical(a.neg # b.neg, a.m, a.e - b.e)
    ELSE With(55 + NatBitLen(b.m), LAMBDA k :
         With(NatDiv(NatShl(a.m, k), b.m), LAMBDA x :
         IF x.r = <<>>
         THEN Rounded(a.neg # b.neg, x.q, a.e - b.e - k, 53)
         ELSE Rounded(a.neg # b.neg, NatAdd(NatMulSmall(x.q, 2), <<1>>),
                      a.e - b.e - k - 1, 53)))

\* the float64 nearest to n / d
FQuo(n, d) == FDiv(Float(n), Float(d))

\* -1, 0 or 1 as |a| is less than, equal to or greater than |b|
MagCmp(a, b) ==
    With(IF a.e < b.e THEN a.e ELSE b.e, LAMBDA e :
    NatCmp(NatShl(a.m, a.e - e), NatShl(b.m, b.e - e)))

\* a + b
FAdd(a, b) ==
    With(IF a.e < b.e THEN a.e ELSE b.e, LAMBDA e :
    With(NatShl(a.m, a.e - e), LAMBDA x :
    With(NatShl(b.m, b.e - e), LAMBDA y :
    IF a.neg = b.neg THEN Rounded(a.neg, NatAdd(x, y), e, 53)
    ELSE IF NatCmp(x, y) >= 0 THEN Rounded(a.neg, NatSub(x, y), e, 53)
    ELSE Rounded(b.neg, NatSub(y, x), e, 53))))

\* a < b
FLess(a, b) ==
    IF a.neg # b.neg THEN a.neg
    ELSE IF a.neg THEN MagCmp(a, b) > 0
    ELSE MagCmp(a, b) < 0

\* math.Max and math.Min
FMax(a, b) == IF FLess(a, b) THEN b ELSE a

FMin(a, b) == IF FLess(b, a) THEN b ELSE a

\* int(x) of a float64 of magnitude below 2^31: the fraction is dropped
truncInt(x) ==
    With(NatToInt(IF x.e >= 0 THEN NatShl(x.m, x.e) ELSE NatShr(x.m, 0 - x.e)),
         LAMBDA i : IF x.neg THEN 0 - i ELSE i)

\* int(math.Round(x)): halves are rounded away from zero
roundToInt(x) ==
    With(IF x.e >= 0 THEN NatToInt(NatShl(x.m, x.e))
         ELSE NatToInt(NatShr(x.m, 0 - x.e)) + NatBit(x.m, 0 - x.e),
         LAMBDA i : IF x.neg THEN 0 - i ELSE i)

\* resizeAuto always taken as fit
autoResizingTypeFit(width, height, po) ==
    IF po.ResizingType # "auto" THEN po.ResizingType ELSE "fit"

\* the resizing type the switch of calcScale works with: resizeAuto becomes
\* fill when source and target lean the same way, and fit otherwise
autoResizingType(width, height, po) ==
    IF po.ResizingType # "auto" THEN po.ResizingType
    ELSE IF \/ (width - height >= 0 /\ po.Width - po.Height >= 0)
            \/ (width - height < 0 /\ po.Width - po.Height < 0)
    THEN "fill"
    ELSE "fit"

\* the shrink factor before the enlarge rule
baseShrink(width, height, po) ==
    With(IF po.Width = 0 THEN Float(width) ELSE Float(po.Width), LAMBDA dstW :
    With(IF po.Height = 0 THEN Float(height) ELSE Float(po.Height), LAMBDA dstH :
    IF dstW = Float(width) /\ dstH = Float(height) THEN Float(1)
    ELSE IF po.Width = 0 THEN FDiv(Float(height), dstH)
    ELSE IF po.Height = 0 THEN FDiv(Float(width), dstW)
    ELSE IF autoResizingType(width, height, po) = "fit"
    THEN FMax(FDiv(Float(width), dstW), FDiv(Float(height), dstH))
    ELSE FMin(FDiv(Float(width), dstW), FDiv(Float(height), dstH))))

\* shrink is raised to 1 when enlarging is off, and only then divided by dpr
enlargeRule(shrink, po, imgtype) ==
    IF ~po.Enlarge /\ FLess(shrink, Float(1)) /\ imgtype # "SVG"
    THEN FDiv(Float(1), po.Dpr)
    ELSE FDiv(shrink, po.Dpr)

\* calcScale(width, height, po, imgtype)
calcScale(width, height, po, imgtype) ==
    With(enlargeRule(baseShrink(width, height, po), po, imgtype), LAMBDA shrink :
    With(FMin(shrink, Float(width)), LAMBDA s1 :
    FDiv(Float(1), FMin(s1, Float(height)))))

\* the source sizes, target sizes, resizing types and pixel ratios tried
SourceSizes == {1, 2, 100, 200}

TargetSizes == {0, 10, 100, 400}

ResizingTypes == {"fit", "fill", "crop", "auto"}

PixelRatios == {FQuo(1, 2), Float(1), Float(2)}

ScaleInputs ==
    [width : SourceSizes, height : SourceSizes,
     po : [Width : TargetSizes, Height : TargetSizes, ResizingType : ResizingTypes,
           Enlarge : BOOLEAN, Dpr : PixelRatios],
     imgtype : {"JPEG", "SVG"}]

ScaleInit ==
    /\ scIn \in ScaleInputs
    /\ scPc = "input"
    /\ scOut = Float(1)

ScaleIdle ==
    /\ scIn = [width |-> 1, height |-> 1,
               po |-> [Width |-> 0, Height |-> 0, ResizingType |-> "fit",
                       Enlarge |-> FALSE, Dpr |-> Float(1)],
               imgtype |-> "JPEG"]
    /\ scPc = "idle"
    /\ scOut = Float(1)

CalcScale ==
    /\ scPc = "input"
    /\ scOut' = calcScale(scIn.width, scIn.height, scIn.po, scIn.imgtype)
    /\ scPc' = "done"
    /\ UNCHANGED <<scIn, vipsSave, parseVars, serverVars, processVars, downloadVars,
                   animVars, pipeVars>>

(***************************************************************************)
(* readAndCheckImage (download.go).  The response body is the sequence of  *)
(* the results of its Read calls: each returns n bytes and nil or io.EOF;  *)
(* after the last one Read returns (0, io.EOF).  Byte strings are counted, *)
(* not stored.                                                             *)
(***************************************************************************)
\* the longest response body, in Read calls
MaxReads == 3

errSourceDimensionsTooBig == Error(422, "Source image dimensions are too big")

errSourceResolutionTooBig == Error(422, "Source image resolution is too big")

errSourceFileTooBig == Error(422, "Source image file is too big")

\* no imageData (nil)
NoImage == [Data |-> -1, Type |-> "UNKNOWN"]

\* the Read of the response body at position pos (from 1)
bodyRead(src, pos) ==
    IF pos > Len(src.reads) THEN [n |-> 0, err |-> "EOF"]
    ELSE [n |-> src.reads[pos].n,
          err |-> IF src.reads[pos].eof THEN "EOF" ELSE ""]

\* limitReader.Read: [n, err, left]
limitRead(src, pos, left) ==
    With(bodyRead(src, pos), LAMBDA r :
    [n |-> r.n,
     err |-> IF r.err = "" /\ left - r.n < 0 THEN "TooBig" ELSE r.err,
     left |-> left - r.n])

\* r.Read of readAndCheckImage: the limitReader when MaxSrcFileSize > 0
read(cf, src, rd) ==
    IF cf.MaxSrcFileSize > 0 THEN limitRead(src, rd.pos + 1, rd.left)
    ELSE With(bodyRead(src, rd.pos + 1), LAMBDA r :
         [n |-> r.n, err |-> r.err, left |-> rd.left])

\* the reader after a Read whose bytes went to buf
Advance(rd, r) ==
    [rd EXCEPT !.pos = rd.pos + 1, !.left = r.left, !.buf = rd.buf + r.n]

RECURSIVE teeReads(_, _, _, _)
\* k Read calls through io.TeeReader(r, buf), stopping at an error or at
\* the end of the stream: [rd, err]
teeReads(cf, src, rd, k) ==
    IF k = 0 THEN [rd |-> rd, err |-> ""]
    ELSE With(read(cf, src, rd), LAMBDA r :
         IF r.err = "TooBig" THEN [rd |-> Advance(rd, r), err |-> "TooBig"]
         ELSE IF r.err = "EOF" THEN [rd |-> Advance(rd, r), err |-> ""]
         ELSE teeReads(cf, src, Advance(rd, r), k - 1))

RECURSIVE ReadFrom(_, _, _)
\* buf.ReadFrom(r): reads until io.EOF, which is no error: [rd, err]
ReadFrom(cf, src, rd) ==
    With(read(cf, src, rd), LAMBDA r :
    IF r.err = "EOF" THEN [rd |-> Advance(rd, r), err |-> ""]
    ELSE IF r.err # "" THEN [rd |-> Advance(rd, r), err |-> r.err]
    ELSE ReadFrom(cf, src, Advance(rd, r)))

\* imageTypeLoadSupport
imageTypeLoadSupport(imgtype) ==
    imgtype = "SVG" \/ imgtype = "ICO" \/ imgtype \in vipsLoad

\* The width and the height of an image are natural numbers kept in digits
\* as the mantissa of a float64 is, since a header field of 32 bits holds
\* sizes whose product leaves the 64 bits of an int.

\* the natural number a is greater than the limit n >= 0 of the configuration
NatAbove(a, n) == NatCmp(a, NatOf(n)) > 0

\* width*height of line 99 for an int of 64 bits: the product modulo 2^64
\* read as a signed number, [neg, m] with m its magnitude
mulInt(width, height) ==
    With(NatMul(width, height), LAMBDA product :
    With(NatSub(product, NatShl(NatShr(product, 64), 64)), LAMBDA low :
    IF NatBit(low, 64) = 1
    THEN [neg |-> TRUE, m |-> NatSub(NatShl(<<1>>, 64), low)]
    ELSE [neg |-> FALSE, m |-> low]))

checkDimensions(cf, width, height) ==
    IF cf.MaxSrcDimension > 0
       /\ (NatAbove(width, cf.MaxSrcDimension) \/ NatAbove(height, cf.MaxSrcDimension))
    THEN errSourceDimensionsTooBig
    ELSE With(mulInt(width, height), LAMBDA resolution :
         IF ~resolution.neg /\ NatAbove(resolution.m, cf.MaxSrcResolution)
         THEN errSourceResolutionTooBig
         ELSE NoError)

\* checkTypeAndDimensions once imagemeta.DecodeMeta has returned the header
checkTypeAndDimensions(cf, src) ==
    IF src.type = "UNKNOWN" THEN errSourceImageTypeNotSupported
    ELSE IF ~imageTypeLoadSupport(src.type) THEN errSourceImageTypeNotSupported
    ELSE checkDimensions(cf, src.width, src.height)

\* the bytes of the whole response body
RECURSIVE BodyBytes(_)
BodyBytes(reads) ==
    IF reads = <<>> THEN 0 ELSE Head(reads).n + BodyBytes(Tail(reads))

\* the Read results of a body cut into pieces of the given sizes; the last
\* piece comes with io.EOF or is followed by (0, io.EOF)
ReadsOf(sizes, eofWithData) ==
    [i \in 1..Len(sizes) |-> [n |-> sizes[i], eof |-> eofWithData /\ i = Len(sizes)]]

DownloadConfigs ==
    [MaxSrcFileSize : {0, 2, 3}, MaxSrcDimension : {0, 2}, MaxSrcResolution : {4}]

\* 3037000500, the least size whose square is above 2^63 - 1
WrappingSize == NatAdd(NatMul(NatOf(30370), NatOf(100000)), NatOf(500))

\* the width and the height of a header: 1 or 3 pixels, or WrappingSize both
HeaderSizes ==
    {<<NatOf(w), NatOf(h)>> : w \in {1, 3}, h \in {1, 3}}
    \cup {<<WrappingSize, WrappingSize>>}

Sources ==
    {[contentLength |-> cl, reads |-> ReadsOf(sizes, e), headerReads |-> hr,
      type |-> t, width |-> size[1], height |-> size[2]] :
        cl \in {-1, 1, 5}, sizes \in SeqsUpTo({1, 2}, MaxReads) \ {<<>>},
        e \in BOOLEAN, hr \in 1..2, t \in {"JPEG", "HEIC", "UNKNOWN"},
        size \in HeaderSizes}

NewReader ==
    [pos |-> 0, left |-> 0, buf |-> 0, probed |-> FALSE, rest |-> FALSE,
     got |-> 0, put |-> 0]

\* buf := downloadBufPool.Get(contentLength): one more buffer is taken
poolGet(rd) == [rd EXCEPT !.got = @ + 1]

\* a failure path that returns without calling cancel
cancelLeak(rd) == rd

\* cancel(): downloadBufPool.Put(buf)
cancel(rd) == [rd EXCEPT !.put = @ + 1]

DownloadInit ==
    /\ dlConf \in DownloadConfigs
    /\ dlSrc \in Sources
    /\ dlPc = "call"
    /\ dlRd = NewReader
    /\ dlErr = NoError
    /\ dlOut = NoImage

DownloadIdle ==
    /\ dlConf = [MaxSrcFileSize |-> 0, MaxSrcDimension |-> 0, MaxSrcResolution |-> 4]
    /\ dlSrc = [contentLength |-> -1, reads |-> <<>>, headerReads |-> 1,
                type |-> "UNKNOWN", width |-> NatOf(1), height |-> NatOf(1)]
    /\ dlPc = "idle"
    /\ dlRd = NewReader
    /\ dlErr = NoError
    /\ dlOut = NoImage

downloadFrame ==
    <<vipsSave, parseVars, serverVars, processVars, scaleVars, animVars, pipeVars>>

\* readAndCheckImage returns (nil, err)
Fail(err) ==
    /\ dlPc' = "done"
    /\ dlErr' = err
    /\ dlOut' = NoImage

\* the Content-Length check and the wrapping of the stream
CheckContentLength ==
    /\ dlPc = "call"
    /\ IF dlConf.MaxSrcFileSize > 0 /\ dlSrc.contentLength > dlConf.MaxSrcFileSize
       THEN Fail(errSourceFileTooBig) /\ UNCHANGED dlRd
       ELSE /\ dlRd' = [poolGet(dlRd) EXCEPT !.left = dlConf.MaxSrcFileSize]
            /\ dlPc' = "probe"
            /\ UNCHANGED <<dlErr, dlOut>>
    /\ UNCHANGED <<dlConf, dlSrc, downloadFrame>>

\* checkTypeAndDimensions(io.TeeReader(r, buf)); a Read error makes
\* imagemeta.DecodeMeta fail with ErrFormat or with another error
Probe ==
    /\ dlPc = "probe"
    /\ \E p \in {teeReads(dlConf, dlSrc, dlRd, dlSrc.headerReads)} :
         IF p.err # ""
         THEN /\ dlRd' = cancel(p.rd)
              /\ \E format \in BOOLEAN :
                   Fail(IF format THEN errSourceImageTypeNotSupported
                        ELSE Error(500, "Source image file is too big"))
         ELSE IF checkTypeAndDimensions(dlConf, dlSrc) # NoError
         THEN /\ dlRd' = cancel([p.rd EXCEPT !.probed = dlSrc.type # "UNKNOWN"])
              /\ Fail(checkTypeAndDimensions(dlConf, dlSrc))
         ELSE /\ dlRd' = [p.rd EXCEPT !.probed = dlSrc.type # "UNKNOWN"]
              /\ dlPc' = "rest"
              /\ UNCHANGED <<dlErr, dlOut>>
    /\ UNCHANGED <<dlConf, dlSrc, downloadFrame>>

\* buf.ReadFrom(r) and the return of the image data
ReadRest ==
    /\ dlPc = "rest"
    /\ \E p \in {ReadFrom(dlConf, dlSrc, dlRd)} :
         IF p.err # ""
         THEN /\ dlRd' = cancel([p.rd EXCEPT !.rest = TRUE])
              /\ Fail(Error(404, errSourceFileTooBig.msg))
         ELSE /\ dlRd' = [p.rd EXCEPT !.rest = TRUE]
              /\ dlPc' = "done"
              /\ dlOut' = [Data |-> p.rd.buf, Type |-> dlSrc.type]
              /\ UNCHANGED dlErr
    /\ UNCHANGED <<dlConf, dlSrc, downloadFrame>>

(***************************************************************************)
(* transformAnimated and the frame goroutines (process.go).  The frame     *)
(* goroutines assign the variable err of transformAnimated without         *)
(* synchronisation; every interleaving of their reads and writes is a      *)
(* behaviour.                                                              *)
(***************************************************************************)
\* the largest number of frames of a source
MaxSourceFrames == 3

minInt(a, b) == IF a < b THEN a ELSE b

\* vipsSupportAnimation: GIF, and WebP with a backend that animates it
vipsSupportAnimation(imgtype) == imgtype \in {"GIF", "WEBP"}

\* the integer quotient of Go, truncated towards zero
quo(a, b) == IF a >= 0 THEN a \div b ELSE 0 - ((0 - a) \div b)

\* scaleInt(a, scale): a * scale rounded; process.go:762 raises its result
\* to 1, so that it may be 0
scaleInt(a, scale) == roundToInt(FMul(Float(a), scale))

\* canScaleOnLoad(imgtype, scale); cf is conf
canScaleOnLoad(cf, imgtype, scale) ==
    IF imgtype = "SVG" THEN TRUE
    ELSE IF cf.DisableShrinkOnLoad \/ ~FLess(scale, Float(1)) THEN FALSE
    ELSE imgtype = "JPEG" \/ imgtype = "WEBP"

\* img.Load(data, imgtype, 1, scale, pages): the image the backend holds;
\* pages is -1 for every page; only WebP is scaled while loading
vipsLoadPages(src, scale, pages) ==
    With(IF src.type = "WEBP" /\ FLess(scale, Float(1))
         THEN scaleInt(src.pageHeight, scale) ELSE src.pageHeight, LAMBDA ph :
    [width |-> IF src.type = "WEBP" /\ FLess(scale, Float(1))
               THEN scaleInt(src.width, scale) ELSE src.width,
     height |-> ph * (IF pages = -1 THEN src.frames ELSE minInt(pages, src.frames)),
     pageHeight |-> ph,
     nPages |-> IF src.nPagesKnown THEN src.frames ELSE 0,
     delay |-> src.delay,
     loop |-> src.loop])

\* every frame of the image, whatever conf.MaxAnimationFrames is
framesCountUncapped(img, maxAnimationFrames) == img.height \div img.pageHeight

\* framesCount := minInt(img.Height()/frameHeight, conf.MaxAnimationFrames)
framesCountOf(img, maxAnimationFrames) ==
    minInt(img.height \div img.pageHeight, maxAnimationFrames)

\* the options calcScale is called with for a target height
animPo(in) ==
    [Width |-> 0, Height |-> in.poHeight, ResizingType |-> "fit",
     Enlarge |-> FALSE, Dpr |-> Float(1)]

\* the image after the scale-on-load block of transformAnimated; the scale
\* stays 1 when the request crops
reloaded(in, img) ==
    IF img.nPages > 0
    THEN With(IF in.poCrop.Width = 0 /\ in.poCrop.Height = 0
              THEN calcScale(img.width, img.pageHeight, animPo(in), in.src.type)
              ELSE Float(1),
              LAMBDA scale :
         IF img.nPages > framesCountOf(img, in.maxAnimationFrames)
            \/ canScaleOnLoad(in.conf, in.src.type, scale)
         THEN vipsLoadPages(in.src, scale, framesCountOf(img, in.maxAnimationFrames))
         ELSE img)
    ELSE img

AnimSources ==
    [type : {"GIF", "WEBP"}, width : {2}, pageHeight : {2},
     frames : 1..MaxSourceFrames, nPagesKnown : BOOLEAN, delay : {4}, loop : {0, 3}]

\* conf.MaxSrcDimension, conf.MaxSrcResolution and conf.DisableShrinkOnLoad
AnimConfigs ==
    [MaxSrcDimension : {0, 3}, MaxSrcResolution : {8, 100},
     DisableShrinkOnLoad : BOOLEAN]

AnimInputs ==
    [src : AnimSources, poFormat : {"GIF", "JPEG"}, poHeight : {0, 1},
     poCrop : {[Width |-> 0, Height |-> 0], [Width |-> 10, Height |-> 0]},
     maxAnimationFrames : {1, 2, 3},
     conf : AnimConfigs,
     watermarkEnabled : BOOLEAN, watermark : BOOLEAN]

NoImg == [width |-> 0, height |-> 0, pageHeight |-> 0, nPages |-> 0,
          delay |-> 0, loop |-> 0]

\* wmEnabled is po.Watermark.Enabled, wmFrames counts the watermarks applied
\* by the frame transforms, failed tells that the Extract or the
\* transformImage of some frame returned an error
NewMain ==
    [pc |-> "call", img |-> NoImg, framesCount |-> 0, delay |-> 0, loop |-> 0,
     wmEnabled |-> FALSE, wmFrames |-> 0, failed |-> FALSE]

NoOutput == [res |-> "", err |-> NoError, frames |-> 0, nPages |-> 0,
             delay |-> 0, loop |-> 0, wmApplied |-> 0, joined |-> FALSE]

AnimInit ==
    /\ anIn \in AnimInputs
    /\ anMain = [NewMain EXCEPT !.wmEnabled = anIn.watermarkEnabled]
    /\ anErr = NoError
    /\ anW = [i \in 1..MaxSourceFrames |-> "unborn"]
    /\ anGrp = NoError
    /\ anFrames = {}
    /\ anOut = NoOutput

AnimIdle ==
    /\ anIn = [src |-> [type |-> "GIF", width |-> 2, pageHeight |-> 2, frames |-> 1,
                        nPagesKnown |-> FALSE, delay |-> 4, loop |-> 0],
               poFormat |-> "GIF", poHeight |-> 0,
               poCrop |-> [Width |-> 0, Height |-> 0], maxAnimationFrames |-> 1,
               conf |-> [MaxSrcDimension |-> 0, MaxSrcResolution |-> 100,
                         DisableShrinkOnLoad |-> FALSE],
               watermarkEnabled |-> FALSE, watermark |-> FALSE]
    /\ anMain = [NewMain EXCEPT !.pc = "idle"]
    /\ anErr = NoError
    /\ anW = [i \in 1..MaxSourceFrames |-> "unborn"]
    /\ anGrp = NoError
    /\ anFrames = {}
    /\ anOut = NoOutput

animFrame ==
    <<vipsSave, parseVars, serverVars, processVars, scaleVars, downloadVars, pipeVars>>

\* the call ends: "ok", "error" (an error is returned), "timeout" (the panic
\* of checkTimeout in the goroutine of the request), "panic" (a nil frame is
\* dereferenced) or "crash" (a panic in a frame goroutine)
\* a transformAnimated that returns without its deferred function
restoreWatermarkSkipped(main, enabled) == main

\* defer func() { po.Watermark.Enabled = watermarkEnabled }()
restoreWatermark(main, enabled) == [main EXCEPT !.wmEnabled = enabled]

\* the deferred functions run when transformAnimated returns or panics past
\* line 1037; a panic in a frame goroutine ends the process instead
\* joined tells that img.Arrayjoin was called
AnimEndAt(res, err, joined) ==
    /\ anMain' = [(IF anMain.pc = "wait" /\ res # "crash"
                   THEN restoreWatermark(anMain, anIn.watermarkEnabled)
                   ELSE anMain) EXCEPT !.pc = "done"]
    /\ anOut' = [NoOutput EXCEPT !.res = res, !.err = err, !.joined = joined]

AnimEnd(res, err) == AnimEndAt(res, err, FALSE)

\* processImage: the animation gate and img.Load
AnimLoad ==
    /\ anMain.pc = "call"
    /\ \E loadFails \in BOOLEAN :
         \E support \in {/\ anIn.maxAnimationFrames > 1
                         /\ vipsSupportAnimation(anIn.src.type)
                         /\ vipsSupportAnimation(anIn.poFormat)} :
         \E img \in {vipsLoadPages(anIn.src, Float(1), IF support THEN -1 ELSE 1)} :
           IF loadFails THEN AnimEnd("error", errVips)
           ELSE IF support /\ img.height > img.pageHeight
           THEN /\ anMain' = [anMain EXCEPT !.pc = "animated", !.img = img]
                /\ UNCHANGED anOut
           ELSE /\ anMain' = [anMain EXCEPT !.pc = "done", !.img = img]
                /\ anOut' = [NoOutput EXCEPT !.res = "static", !.frames = 1]
    /\ UNCHANGED <<anIn, anErr, anW, anGrp, anFrames, animFrame>>

\* transformAnimated up to the loop that starts the frame goroutines
AnimStart ==
    /\ anMain.pc = "animated"
    /\ \E backendFails \in BOOLEAN :
         \E n \in {framesCountOf(anMain.img, anIn.maxAnimationFrames)} :
         \E img \in {reloaded(anIn, anMain.img)} :
         \E tooBig \in {checkDimensions(anIn.conf, NatOf(anMain.img.width),
                                        NatOf(anMain.img.pageHeight * n))} :
           IF backendFails
           THEN AnimEnd("error", errVips) /\ UNCHANGED <<anW, anErr>>
           ELSE IF tooBig # NoError
           THEN /\ AnimEnd("error", tooBig)
                /\ UNCHANGED <<anW, anErr>>
           ELSE /\ anMain' = [pc |-> "wait", img |-> img, framesCount |-> n,
                              delay |-> img.delay, loop |-> img.loop,
                              wmEnabled |-> FALSE, wmFrames |-> 0,
                              failed |-> FALSE]
                /\ anW' = [i \in 1..MaxSourceFrames |->
                              IF i <= n THEN "extract" ELSE "unborn"]
                /\ anErr' = NoError
                /\ UNCHANGED anOut
    /\ UNCHANGED <<anIn, anGrp, anFrames, animFrame>>

\* err = img.Extract(frame, ...)
FrameExtract(i) ==
    /\ anMain.pc = "wait"
    /\ anW[i] = "extract"
    /\ \E e \in {NoError, errVips} :
         /\ anErr' = e
         /\ anMain' = [anMain EXCEPT !.failed = @ \/ e # NoError]
    /\ anW' = [anW EXCEPT ![i] = "extracted"]
    /\ UNCHANGED <<anIn, anGrp, anFrames, anOut, animFrame>>

\* err != nil after img.Extract
FrameExtracted(i) ==
    /\ anMain.pc = "wait"
    /\ anW[i] = "extracted"
    /\ anW' = [anW EXCEPT ![i] = IF anErr # NoError THEN "return" ELSE "transform"]
    /\ UNCHANGED <<anIn, anMain, anErr, anGrp, anFrames, anOut, animFrame>>

\* err = transformImage(ctx, frame, nil, po, imgtype); its checkTimeout
\* panics in the frame goroutine once the deadline has expired
FrameTransform(i) ==
    /\ anMain.pc = "wait"
    /\ anW[i] = "transform"
    /\ \E expired \in BOOLEAN, e \in {NoError, errVips} :
         IF expired
         THEN /\ AnimEnd("crash", errTimeout)
              /\ UNCHANGED <<anErr, anW>>
         ELSE /\ anErr' = e
              /\ anW' = [anW EXCEPT ![i] = "transformed"]
              /\ anMain' = [anMain EXCEPT !.wmFrames =
                                 IF anMain.wmEnabled /\ anIn.watermark
                                 THEN @ + 1 ELSE @,
                                            !.failed = @ \/ e # NoError]
              /\ UNCHANGED anOut
    /\ UNCHANGED <<anIn, anGrp, anFrames, animFrame>>

\* err != nil after transformImage
FrameTransformed(i) ==
    /\ anMain.pc = "wait"
    /\ anW[i] = "transformed"
    /\ anW' = [anW EXCEPT ![i] = IF anErr # NoError THEN "return" ELSE "store"]
    /\ UNCHANGED <<anIn, anMain, anErr, anGrp, anFrames, anOut, animFrame>>

\* frames[ind] = frame; return nil
FrameStore(i) ==
    /\ anMain.pc = "wait"
    /\ anW[i] = "store"
    /\ anFrames' = anFrames \cup {i}
    /\ anW' = [anW EXCEPT ![i] = "returned"]
    /\ UNCHANGED <<anIn, anMain, anErr, anGrp, anOut, animFrame>>

\* return err: the errgroup keeps the first error that is not nil
FrameReturn(i) ==
    /\ anMain.pc = "wait"
    /\ anW[i] = "return"
    /\ anGrp' = IF anGrp = NoError THEN anErr ELSE anGrp
    /\ anW' = [anW EXCEPT ![i] = "returned"]
    /\ UNCHANGED <<anIn, anMain, anErr, anFrames, anOut, animFrame>>

\* errg.Wait(), checkTimeout, img.Arrayjoin and the metadata of the result
AnimJoin ==
    /\ anMain.pc = "wait"
    /\ \A i \in 1..anMain.framesCount : anW[i] = "returned"
    /\ \E expired \in BOOLEAN, joinFails \in BOOLEAN, wmFails \in BOOLEAN :
         IF anGrp # NoError THEN AnimEnd("error", anGrp) /\ anErr' = anGrp
         ELSE IF expired
         THEN AnimEnd("timeout", errTimeout) /\ anErr' = NoError
         ELSE IF anFrames # 1..anMain.framesCount
         THEN /\ AnimEndAt("panic", Error(500, "nil pointer dereference"), TRUE)
              /\ anErr' = NoError
         ELSE IF joinFails THEN AnimEndAt("error", errVips, TRUE) /\ anErr' = errVips
         ELSE IF anIn.watermarkEnabled /\ anIn.watermark /\ wmFails
         THEN /\ AnimEndAt("error", errVips, TRUE)
              /\ anErr' = errVips
         ELSE /\ anMain' = [restoreWatermark(anMain, anIn.watermarkEnabled)
                               EXCEPT !.pc = "done"]
              /\ anOut' = [res |-> "ok", err |-> NoError,
                           frames |-> Cardinality(anFrames),
                           nPages |-> anMain.framesCount,
                           delay |-> anMain.delay, loop |-> anMain.loop,
                           wmApplied |-> IF anIn.watermarkEnabled /\ anIn.watermark
                                         THEN 1 ELSE 0,
                           joined |-> TRUE]
              /\ anErr' = NoError
    /\ UNCHANGED <<anIn, anW, anGrp, anFrames, animFrame>>

(***************************************************************************)
(* The crops of transformImage: calcCrop, cropImage and the part of        *)
(* transformImage that prepares and calls them (process.go).  Offsets and  *)
(* focus points are float64 values.                                        *)
(***************************************************************************)
maxInt(a, b) == IF a > b THEN a ELSE b

\* minNonZeroInt(a, b): the smaller one, a zero standing for no limit
minNonZeroInt(a, b) ==
    IF a = 0 THEN b ELSE IF b = 0 THEN a ELSE minInt(a, b)

NorthTypes == {"no", "noea", "nowe"}
EastTypes == {"ea", "noea", "soea"}
SouthTypes == {"so", "soea", "sowe"}
WestTypes == {"we", "nowe", "sowe"}

\* left and top before the clamp, for a gravity that is no focus point
anchored(width, height, cropWidth, cropHeight, gravity) ==
    [left |-> IF gravity.Type \in WestTypes THEN 0 + truncInt(gravity.X)
              ELSE IF gravity.Type \in EastTypes
              THEN width - cropWidth - truncInt(gravity.X)
              ELSE quo(width - cropWidth + 1, 2) + truncInt(gravity.X),
     top |-> IF gravity.Type \in SouthTypes
             THEN height - cropHeight - truncInt(gravity.Y)
             ELSE IF gravity.Type \in NorthTypes THEN 0 + truncInt(gravity.Y)
             ELSE quo(height - cropHeight + 1, 2) + truncInt(gravity.Y)]

\* left = minInt(left, width-cropWidth) without the maxInt(0, ...)
clampAbove(at, limit) == minInt(at, limit)

\* left = maxInt(0, minInt(left, width-cropWidth))
clamp(at, limit) == maxInt(0, minInt(at, limit))

\* calcCrop(width, height, cropWidth, cropHeight, gravity)
calcCrop(width, height, cropWidth, cropHeight, gravity) ==
    IF gravity.Type = "fp"
    THEN [left |-> clamp(scaleInt(width, gravity.X) - quo(cropWidth, 2),
                         width - cropWidth),
          top |-> clamp(scaleInt(height, gravity.Y) - quo(cropHeight, 2),
                        height - cropHeight)]
    ELSE With(anchored(width, height, cropWidth, cropHeight, gravity), LAMBDA at :
         [left |-> clamp(at.left, width - cropWidth),
          top |-> clamp(at.top, height - cropHeight)])

\* a call of the backend made by cropImage
BackendCrop(op, img, cropWidth, cropHeight, gravity, at) ==
    [op |-> op, width |-> img.width, height |-> img.height,
     cropWidth |-> cropWidth, cropHeight |-> cropHeight,
     gravity |-> gravity, left |-> at.left, top |-> at.top]

\* cropImage(img, cropWidth, cropHeight, gravity): the image afterwards and
\* the backend call made, if any
cropImage(img, cropWidth, cropHeight, gravity) ==
    IF cropWidth = 0 /\ cropHeight = 0 THEN [img |-> img, calls |-> <<>>]
    ELSE With(minNonZeroInt(cropWidth, img.width), LAMBDA cw :
         With(minNonZeroInt(cropHeight, img.height), LAMBDA ch :
         IF cw >= img.width /\ ch >= img.height THEN [img |-> img, calls |-> <<>>]
         ELSE IF gravity.Type = "sm"
         THEN [img |-> [width |-> cw, height |-> ch],
               calls |-> <<BackendCrop("SmartCrop", img, cw, ch, gravity,
                                       [left |-> 0, top |-> 0])>>]
         ELSE [img |-> [width |-> cw, height |-> ch],
               calls |-> <<BackendCrop("Crop", img, cw, ch, gravity,
                                       calcCrop(img.width, img.height, cw, ch,
                                                gravity))>>]))

\* the gravity with its offsets multiplied by scale
scaledGravity(gravity, scale) ==
    [Type |-> gravity.Type, X |-> FMul(gravity.X, scale),
     Y |-> FMul(gravity.Y, scale)]

\* transformImage from its entry to the crops: the scale, the crop size and
\* the crop gravity, and the image as img.Resize leaves it
planned(in) ==
    With(IF in.po.Crop.Gravity.Type = "unknown" THEN in.po.Gravity
         ELSE in.po.Crop.Gravity, LAMBDA cropGravity :
    With(calcScale(minNonZeroInt(in.po.Crop.Width, in.srcWidth),
                   minNonZeroInt(in.po.Crop.Height, in.srcHeight),
                   in.po, in.imgtype), LAMBDA scale :
    [scale |-> scale,
     cropWidth |-> scaleInt(in.po.Crop.Width, scale),
     cropHeight |-> scaleInt(in.po.Crop.Height, scale),
     cropGravity |-> scaledGravity(cropGravity, scale),
     img |-> IF scale # Float(1)
             THEN [width |-> maxInt(scaleInt(in.srcWidth, scale), 1),
                   height |-> maxInt(scaleInt(in.srcHeight, scale), 1)]
             ELSE [width |-> in.srcWidth, height |-> in.srcHeight]]))

\* lines 906-929, the crops of transformImage: one with the sum of the two
\* gravities when their types agree, else the crop of the directive and then
\* the crop to the target size; the image afterwards and the backend calls
cropped(in, st) ==
    With(scaleInt(in.po.Width, in.po.Dpr), LAMBDA dprWidth :
    With(scaleInt(in.po.Height, in.po.Dpr), LAMBDA dprHeight :
    IF st.cropGravity.Type = in.po.Gravity.Type /\ st.cropGravity.Type # "fp"
    THEN cropImage(st.img, minNonZeroInt(st.cropWidth, dprWidth),
                   minNonZeroInt(st.cropHeight, dprHeight),
                   [Type |-> st.cropGravity.Type,
                    X |-> FAdd(st.cropGravity.X, in.po.Gravity.X),
                    Y |-> FAdd(st.cropGravity.Y, in.po.Gravity.Y)])
    ELSE With(cropImage(st.img, st.cropWidth, st.cropHeight, st.cropGravity),
              LAMBDA first :
         With(cropImage(first.img, dprWidth, dprHeight, in.po.Gravity),
              LAMBDA second :
         [img |-> second.img, calls |-> first.calls \o second.calls]))))

\* the backend crops of transformImage
crops(in, st) == cropped(in, st).calls

GravityTypes ==
    {"ce", "no", "ea", "so", "we", "noea", "nowe", "soea", "sowe", "sm", "fp"}

\* pixel offsets, and focus points inside the image
Gravities ==
    [Type : GravityTypes \ {"fp"}, X : {Float(0), Float(3), Float(-30)},
     Y : {Float(0), Float(50)}]
    \cup [Type : {"fp"}, X : {Float(0), FQuo(1, 2), Float(1)}, Y : {FQuo(1, 2)}]

NoGravity == [Type |-> "unknown", X |-> Float(0), Y |-> Float(0)]

CropGravities ==
    {NoGravity,
     [Type |-> "ce", X |-> Float(3), Y |-> Float(0)],
     [Type |-> "no", X |-> Float(0), Y |-> Float(0)],
     [Type |-> "fp", X |-> FQuo(1, 2), Y |-> FQuo(1, 2)]}

CropInputs ==
    [srcWidth : {20, 40}, srcHeight : {20}, imgtype : {"PNG"},
     po : [Width : {0, 10}, Height : {0, 10}, ResizingType : {"fit", "fill"},
           Enlarge : BOOLEAN, Dpr : {Float(1), Float(2)},
           Gravity : Gravities,
           Crop : [Width : {0, 10, 30}, Height : {0, 10}, Gravity : CropGravities]]]

NoPlan ==
    [scale |-> Float(1), cropWidth |-> 0, cropHeight |-> 0,
     cropGravity |-> NoGravity, img |-> [width |-> 0, height |-> 0]]

CropInit ==
    /\ crIn \in CropInputs
    /\ crPc = "call"
    /\ crSt = NoPlan
    /\ crCalls = <<>>

CropIdle ==
    /\ crIn = [srcWidth |-> 20, srcHeight |-> 20, imgtype |-> "PNG",
               po |-> [Width |-> 0, Height |-> 0, ResizingType |-> "fit",
                       Enlarge |-> FALSE, Dpr |-> Float(1),
                       Gravity |-> [Type |-> "ce", X |-> Float(0), Y |-> Float(0)],
                       Crop |-> [Width |-> 0, Height |-> 0, Gravity |-> NoGravity]]]
    /\ crPc = "idle"
    /\ crSt = NoPlan
    /\ crCalls = <<>>

cropFrame ==
    <<vipsSave, parseVars, serverVars, processVars, scaleVars, downloadVars, animVars,
      transformVars, watermarkVars, gifVars>>

\* transformImage up to the checkpoint before the crops
PlanCrop ==
    /\ crPc = "call"
    /\ crSt' = planned(crIn)
    /\ crPc' = "crop"
    /\ UNCHANGED <<crIn, crCalls, cropFrame>>

\* the crops of transformImage
Crop ==
    /\ crPc = "crop"
    /\ crCalls' = crops(crIn, crSt)
    /\ crPc' = "done"
    /\ UNCHANGED <<crIn, crSt, cropFrame>>

(***************************************************************************)
(* The stages of transformImage (process.go:807-976): the calls of the     *)
(* backend in the order they are made.  The image is a PNG, which is not   *)
(* scaled while loading (lines 828-850 are skipped).  srcWidth and         *)
(* srcHeight are those extractMeta returns, exchanged already for an image *)
(* that is turned by a quarter, so the sizes kept are those of the image   *)
(* as the crops find it after the rotation.                                *)
(***************************************************************************)
\* lines 810-826: the locals of transformImage before the image is touched
entered(in) ==
    [planned(in) EXCEPT !.img = [width |-> in.srcWidth, height |-> in.srcHeight]]

\* line 857: convertToLinear; st holds the locals of transformImage
convertToLinear(in, st) ==
    in.conf.UseLinearColorspace /\ (st.scale # Float(1) \/ in.po.Dpr # Float(1))

\* lines 856-864: iccImported after the import before the resize
iccImported(in, st) == convertToLinear(in, st) \/ ~in.isSRGB

\* lines 852-874: Rad2Float, the import of the profile and the colourspace
\* before the resize
prepareOps(in, st) ==
    <<"Rad2Float">>
    \o (IF convertToLinear(in, st) \/ ~in.isSRGB THEN <<"ImportColourProfile">>
        ELSE <<>>)
    \o (IF convertToLinear(in, st) THEN <<"LinearColourspace">>
        ELSE <<"RgbColourspace">>)

resizeOps(st) == IF st.scale # Float(1) THEN <<"Resize">> ELSE <<>>

orientOps(in) ==
    IF in.angle # 0 \/ in.flip
    THEN <<"CopyMemory">>
         \o (IF in.angle # 0 THEN <<"Rotate">> ELSE <<>>)
         \o (IF in.flip THEN <<"Flip">> ELSE <<>>)
    ELSE <<>>

\* lines 737-746: the calls of a cropImage that reaches the backend
cropCallOps(call) ==
    IF call.op = "SmartCrop" THEN <<"CopyMemory", "SmartCrop", "CopyMemory">>
    ELSE <<"Crop">>

RECURSIVE flatOps(_)
flatOps(calls) ==
    IF calls = <<>> THEN <<>> ELSE cropCallOps(Head(calls)) \o flatOps(Tail(calls))

\* lines 906-929: the calls of the one or two cropImage
cropOps(in, st) == flatOps(cropped(in, st).calls)

\* lines 933-941: the profile is imported unless it was before the resize
srgbOps(in, st) ==
    (IF ~iccImported(in, st) THEN <<"ImportColourProfile">> ELSE <<>>)
    \o <<"RgbColourspace">>

\* a flatten that does not look at the alpha channel
flattenOpsNoAlpha(in) ==
    IF in.po.Flatten \/ in.po.Format = "JPEG" THEN <<"Flatten">> ELSE <<>>

flattenOps(in) ==
    IF in.hasAlpha /\ (in.po.Flatten \/ in.po.Format = "JPEG")
    THEN <<"Flatten">> ELSE <<>>

blurOps(in) == IF in.po.Blur > 0 THEN <<"Blur">> ELSE <<>>

sharpenOps(in) == IF in.po.Sharpen > 0 THEN <<"Sharpen">> ELSE <<>>

\* line 961: img.Width() and img.Height() are those the crops left
extendOps(in, st) ==
    IF in.po.Extend /\ (in.po.Width > st.img.width \/ in.po.Height > st.img.height)
    THEN <<"Embed">> ELSE <<>>

watermarkOps(in) ==
    IF in.po.WatermarkEnabled /\ in.watermark THEN <<"ApplyWatermark">> ELSE <<>>

finalOps(in) == <<"RgbColourspace">>

CropDirectives ==
    {[Width |-> 0, Height |-> 0, Gravity |-> NoGravity],
     [Width |-> 15, Height |-> 15,
      Gravity |-> [Type |-> "no", X |-> Float(0), Y |-> Float(0)]]}

TransformGravities ==
    [Type : {"ce", "sm"}, X : {Float(0)}, Y : {Float(0)}]

\* the source image and the configuration of a call
TransformSources ==
    [srcWidth : {20, 40}, angle : {0, 90}, flip : BOOLEAN, isSRGB : BOOLEAN,
     UseLinearColorspace : BOOLEAN]

\* the options the scale and the crops read
CropOptions ==
    [Width : {0, 10, 30}, Height : {0, 10}, ResizingType : {"fit", "fill"},
     Enlarge : BOOLEAN, Dpr : {Float(1), Float(2)},
     Gravity : TransformGravities, Crop : CropDirectives]

\* what the stages after the crops read
LaterOptions ==
    [hasAlpha : BOOLEAN, watermark : BOOLEAN, Flatten : BOOLEAN,
     Format : {"JPEG", "PNG"}, Blur : {0, 1}, Sharpen : {0, 1},
     Extend : BOOLEAN, WatermarkEnabled : BOOLEAN]

\* every option of the stages after the crops is on
LaterStagesOn(l) ==
    /\ l.hasAlpha /\ l.watermark /\ l.Flatten /\ l.Format = "JPEG"
    /\ l.Blur = 1 /\ l.Sharpen = 1 /\ l.Extend /\ l.WatermarkEnabled

\* every option of the stages after the crops is off
LaterStagesOff(l) ==
    /\ ~l.hasAlpha /\ ~l.watermark /\ ~l.Flatten /\ l.Format = "PNG"
    /\ l.Blur = 0 /\ l.Sharpen = 0 /\ ~l.Extend /\ ~l.WatermarkEnabled

\* a centre gravity, no crop directive, a target to fit that does not
\* enlarge, and dpr 1
PlainCrop(c) ==
    /\ c.ResizingType = "fit"
    /\ ~c.Enlarge
    /\ c.Gravity.Type = "ce"
    /\ c.Crop.Width = 0
    /\ c.Width # 0 /\ c.Height # 0
    /\ c.Dpr = Float(1)

\* a call of transformImage: a PNG image 20 high, so that the image is not
\* loaded again at a smaller size (lines 828-850 are skipped)
TransformInput(s, c, l) ==
    [srcWidth |-> s.srcWidth, srcHeight |-> 20, imgtype |-> "PNG",
     angle |-> s.angle, flip |-> s.flip, isSRGB |-> s.isSRGB,
     hasAlpha |-> l.hasAlpha, watermark |-> l.watermark,
     conf |-> [UseLinearColorspace |-> s.UseLinearColorspace],
     po |-> [Width |-> c.Width, Height |-> c.Height,
             ResizingType |-> c.ResizingType, Enlarge |-> c.Enlarge,
             Dpr |-> c.Dpr, Gravity |-> c.Gravity, Crop |-> c.Crop,
             Flatten |-> l.Flatten, Format |-> l.Format, Blur |-> l.Blur,
             Sharpen |-> l.Sharpen, Extend |-> l.Extend,
             WatermarkEnabled |-> l.WatermarkEnabled]]

\* the calls tried: every setting of the later stages with a plain crop, and
\* every crop with the later stages all on or all off
TransformInputs ==
    {TransformInput(s, x[1], x[2]) :
        s \in TransformSources,
        x \in {y \in CropOptions \X LaterOptions :
                  PlainCrop(y[1]) \/ LaterStagesOn(y[2]) \/ LaterStagesOff(y[2])}}

TransformInit ==
    /\ trIn \in TransformInputs
    /\ trPc = "prepare"
    /\ trOps = <<>>
    /\ trErr = NoError
    /\ trSt = NoPlan

TransformIdle ==
    /\ trIn = [srcWidth |-> 20, srcHeight |-> 20, imgtype |-> "PNG",
               angle |-> 0, flip |-> FALSE, isSRGB |-> TRUE,
               hasAlpha |-> FALSE, watermark |-> FALSE,
               conf |-> [UseLinearColorspace |-> FALSE],
               po |-> [Width |-> 10, Height |-> 10, ResizingType |-> "fit",
                       Enlarge |-> FALSE, Dpr |-> Float(1),
                       Gravity |-> [Type |-> "ce", X |-> Float(0), Y |-> Float(0)],
                       Crop |-> [Width |-> 0, Height |-> 0, Gravity |-> NoGravity],
                       Flatten |-> FALSE, Format |-> "JPEG", Blur |-> 0,
                       Sharpen |-> 0, Extend |-> FALSE,
                       WatermarkEnabled |-> FALSE]]
    /\ trPc = "idle"
    /\ trOps = <<>>
    /\ trErr = NoError
    /\ trSt = NoPlan

transformFrame ==
    <<vipsSave, parseVars, serverVars, processVars, scaleVars, downloadVars, animVars,
      cropVars, watermarkVars, gifVars>>

\* the calls ops made by the stage
Calls(stage, ops) == [i \in 1..Len(ops) |-> [stage |-> stage, op |-> ops[i]]]

\* the calls of the stage pc are made in turn: the first one that fails ends
\* transformImage with its error; st holds the locals after the stage, and
\* checkTimeout follows where there is a checkpoint
Stage(pc, next, stageOps, checkpoint, stageSt) ==
    /\ trPc = pc
    /\ \E ops \in {stageOps}, st \in {stageSt} :
       \E failAt \in 0..Len(ops), expired \in BOOLEAN :
         IF failAt > 0
         THEN /\ trOps' = trOps \o Calls(pc, SubSeq(ops, 1, failAt))
              /\ trPc' = "done"
              /\ trErr' = errVips
              /\ UNCHANGED trSt
         ELSE /\ trOps' = trOps \o Calls(pc, ops)
              /\ trSt' = st
              /\ IF checkpoint /\ expired
                 THEN trPc' = "done" /\ trErr' = errTimeout
                 ELSE trPc' = next /\ UNCHANGED trErr
    /\ UNCHANGED <<trIn, transformFrame>>

\* lines 810-874: the scale and the crop are computed, the image is prepared
TrPrepare ==
    Stage("prepare", "resize", prepareOps(trIn, entered(trIn)), FALSE,
          entered(trIn))

\* lines 876-884: the image has the size img.Resize leaves
TrResize ==
    Stage("resize", "orient", resizeOps(trSt), TRUE,
          [trSt EXCEPT !.img = planned(trIn).img])

\* lines 886-904
TrOrient == Stage("orient", "crop", orientOps(trIn), TRUE, trSt)

\* lines 906-931: the image has the size the crops leave
TrCrop ==
    Stage("crop", "srgb", cropOps(trIn, trSt), TRUE,
          [trSt EXCEPT !.img = cropped(trIn, trSt).img])

\* lines 933-941
TrSrgb == Stage("srgb", "flatten", srgbOps(trIn, trSt), FALSE, trSt)

\* lines 943-947
TrFlatten == Stage("flatten", "blur", flattenOps(trIn), FALSE, trSt)

\* lines 949-953
TrBlur == Stage("blur", "sharpen", blurOps(trIn), FALSE, trSt)

\* lines 955-959
TrSharpen == Stage("sharpen", "extend", sharpenOps(trIn), FALSE, trSt)

\* lines 961-967
TrExtend == Stage("extend", "watermark", extendOps(trIn, trSt), TRUE, trSt)

\* lines 969-973
TrWatermark == Stage("watermark", "final", watermarkOps(trIn), FALSE, trSt)

\* line 975
TrFinal == Stage("final", "done", finalOps(trIn), FALSE, trSt)

(***************************************************************************)
(* transformGif and the transformImage it runs for every frame             *)
(* (process.go:1438-1650).  The frame goroutines get the same pointer po;  *)
(* transformImage writes po.Width and po.Height without synchronisation,   *)
(* so every read and every assignment of one of the two fields is a step   *)
(* of its own, and the steps of the goroutines interleave freely.          *)
(***************************************************************************)
MaxGifFrames == 2

\* lines 1351-1354
needToScale(width, height, po) ==
    /\ \/ po.Width # 0 /\ po.Width # width
       \/ po.Height # 0 /\ po.Height # height
    /\ po.Resize \in {"fill", "fit"}

\* lines 1356-1383.  calcScale reads po.Width and po.Height twice: po holds
\* the values of the reads of lines 1359 and 1360, widthIsZero and
\* heightIsZero are the tests of lines 1364 and 1366 on the second reads
calcScaleGif(width, height, po, widthIsZero, heightIsZero) ==
    LET srcW == Float(width)
        srcH == Float(height)
        wr == FDiv(Float(po.Width), srcW)
        hr == FDiv(Float(po.Height), srcH)
        scale == IF widthIsZero THEN hr
                 ELSE IF heightIsZero THEN wr
                 ELSE IF po.Resize = "fit" THEN FMin(wr, hr)
                 ELSE FMax(wr, hr)
        scaleW == IF FLess(FMul(srcW, scale), Float(1))
                  THEN FDiv(Float(1), srcW) ELSE scale
    IN  IF FLess(FMul(srcH, scaleW), Float(1))
        THEN FDiv(Float(1), srcH) ELSE scaleW

\* float32(x): the mantissa keeps 24 bits
float32(x) == Rounded(x.neg, x.m, x.e, 24)

\* float32(2.1)
Dpr21 == FQuo(4404019, 2097152)

\* int(float32(po.Width) * po.Dpr) under po.Width != 0 (lines 1443-1450),
\* the product being a float32
dprScaled(v, dpr) ==
    IF v # 0 THEN truncInt(float32(FMul(float32(Float(v)), dpr))) ELSE v

\* lines 1442-1450 with the values width and height read from po
applyDpr(po, width, height) ==
    [po EXCEPT !.Width = dprScaled(width, po.Dpr),
               !.Height = dprScaled(height, po.Dpr)]

\* lines 1451-1460
clampToImage(po, imgWidth, imgHeight) ==
    IF ~po.Enlarge \/ po.Resize = "crop"
    THEN [po EXCEPT !.Width = IF imgWidth < @ THEN imgWidth ELSE @,
                    !.Height = IF imgHeight < @ THEN imgHeight ELSE @]
    ELSE po

\* the size of the image after lines 1464-1500 when nothing else writes
\* po: vipsResize by the scale
resized(imgWidth, imgHeight, po) ==
    IF needToScale(imgWidth, imgHeight, po)
    THEN With(calcScaleGif(imgWidth, imgHeight, po, po.Width = 0, po.Height = 0),
              LAMBDA scale : <<roundToInt(FMul(Float(imgWidth), scale)),
                               roundToInt(FMul(Float(imgHeight), scale))>>)
    ELSE <<imgWidth, imgHeight>>

\* lines 1529-1535
fillFromImage(po, imgWidth, imgHeight) ==
    [po EXCEPT !.Width = IF @ = 0 THEN imgWidth ELSE @,
               !.Height = IF @ = 0 THEN imgHeight ELSE @]

\* the gravity of the frames is the default one, gravityCenter
GifInputs ==
    [imgWidth : {40}, frameHeight : {20, 40}, framesCount : 1..MaxGifFrames,
     po : [Width : {0, 10}, Height : {0, 10}, Dpr : {Float(1), Float(2), Dpr21},
           Enlarge : BOOLEAN, Resize : {"fit", "fill", "crop"}]]

\* width and height are the values of po.Width and po.Height a goroutine has
\* read and still uses, left and top the results of calcCrop, imgWidth and
\* imgHeight the size of its frame (line 1441, and line 1494 after the
\* resize), cropped the arguments of its call of vipsCrop, none without one
NewFrame ==
    [pc |-> "unborn", width |-> 0, height |-> 0, left |-> 0, top |-> 0,
     imgWidth |-> 0, imgHeight |-> 0, cropped |-> <<>>]

\* errg.Go for every frame (lines 1626-1643)
GifInit ==
    /\ gfIn \in GifInputs
    /\ gfPo = gfIn.po
    /\ gfW = [i \in 1..MaxGifFrames |->
                IF i <= gfIn.framesCount
                THEN [NewFrame EXCEPT !.pc = "dprWidth", !.imgWidth = gfIn.imgWidth,
                                      !.imgHeight = gfIn.frameHeight]
                ELSE NewFrame]

GifIdle ==
    /\ gfIn = [imgWidth |-> 40, frameHeight |-> 20, framesCount |-> 1,
               po |-> [Width |-> 0, Height |-> 10, Dpr |-> Float(1),
                       Enlarge |-> FALSE, Resize |-> "fit"]]
    /\ gfPo = gfIn.po
    /\ gfW = [i \in 1..MaxGifFrames |-> NewFrame]

gifFrame ==
    <<vipsSave, parseVars, serverVars, processVars, scaleVars, downloadVars, animVars,
      cropVars, transformVars, watermarkVars>>

\* a step of the goroutine of frame i that reads po: its place afterwards
\* and the values of po.Width and po.Height it holds
GifRead(i, pc, next, width, height) ==
    /\ gfW[i].pc = pc
    /\ gfW' = [gfW EXCEPT ![i] = [@ EXCEPT !.pc = next, !.width = width,
                                           !.height = height]]
    /\ UNCHANGED <<gfIn, gfPo, gifFrame>>

\* a step of the goroutine of frame i that assigns to a field of po
GifWrite(i, pc, next, po) ==
    /\ gfW[i].pc = pc
    /\ gfPo' = po
    /\ gfW' = [gfW EXCEPT ![i] = [@ EXCEPT !.pc = next, !.width = 0, !.height = 0]]
    /\ UNCHANGED <<gfIn, gifFrame>>

\* the reads of lines 1442-1447, each a step of its own: po.Dpr != 1 with
\* po.Width != 0 (1442-1443), the po.Width that is multiplied (1444),
\* po.Height != 0 (1446), the po.Height that is multiplied (1447)
GifDprRead(i) ==
    \/ IF gfPo.Dpr = Float(1) THEN GifRead(i, "dprWidth", "clampWidth", 0, 0)
       ELSE IF gfPo.Width # 0
       THEN GifRead(i, "dprWidth", "dprLoadWidth", 0, 0)
       ELSE GifRead(i, "dprWidth", "dprHeight", 0, 0)
    \/ GifRead(i, "dprLoadWidth", "dprStoreWidth", gfPo.Width, 0)
    \/ IF gfPo.Height # 0
       THEN GifRead(i, "dprHeight", "dprLoadHeight", 0, 0)
       ELSE GifRead(i, "dprHeight", "clampWidth", 0, 0)
    \/ GifRead(i, "dprLoadHeight", "dprStoreHeight", 0, gfPo.Height)

\* the assignments of lines 1444 and 1447, each a step of its own
GifDprWrite(i) ==
    \/ GifWrite(i, "dprStoreWidth", "dprHeight",
                [gfPo EXCEPT !.Width = dprScaled(gfW[i].width, gfPo.Dpr)])
    \/ GifWrite(i, "dprStoreHeight", "clampWidth",
                [gfPo EXCEPT !.Height = dprScaled(gfW[i].height, gfPo.Dpr)])

\* lines 1451-1459, each test and each assignment a step of its own:
\* !po.Enlarge || po.Resize == resizeCrop with imgWidth < po.Width
\* (1451-1452), po.Width = imgWidth (1453), imgHeight < po.Height (1456),
\* po.Height = imgHeight (1457)
GifClamp(i) ==
    \/ IF ~(~gfPo.Enlarge \/ gfPo.Resize = "crop")
       THEN GifRead(i, "clampWidth", "needWidth", 0, 0)
       ELSE IF gfW[i].imgWidth < gfPo.Width
       THEN GifRead(i, "clampWidth", "clampStoreWidth", 0, 0)
       ELSE GifRead(i, "clampWidth", "clampHeight", 0, 0)
    \/ GifWrite(i, "clampStoreWidth", "clampHeight",
                [gfPo EXCEPT !.Width = gfW[i].imgWidth])
    \/ IF gfW[i].imgHeight < gfPo.Height
       THEN GifRead(i, "clampHeight", "clampStoreHeight", 0, 0)
       ELSE GifRead(i, "clampHeight", "needWidth", 0, 0)
    \/ GifWrite(i, "clampStoreHeight", "needWidth",
                [gfPo EXCEPT !.Height = gfW[i].imgHeight])

\* line 1463 with lines 1351-1354, each read of po.Width and po.Height a
\* step of its own and && and || leaving out what they need not evaluate:
\* po.Width != 0, po.Width != width, po.Height != 0, po.Height != height;
\* po.Resize is looked at once one of the two sizes differs
GifNeedToScale(i) ==
    LET scales == IF gfPo.Resize \in {"fill", "fit"} THEN "scaleWidth" ELSE "fillWidth"
    IN  \/ GifRead(i, "needWidth",
                   IF gfPo.Width # 0 THEN "needWidthDiffers" ELSE "needHeight", 0, 0)
        \/ GifRead(i, "needWidthDiffers",
                   IF gfPo.Width # gfW[i].imgWidth THEN scales ELSE "needHeight", 0, 0)
        \/ GifRead(i, "needHeight",
                   IF gfPo.Height # 0 THEN "needHeightDiffers" ELSE "fillWidth", 0, 0)
        \/ GifRead(i, "needHeightDiffers",
                   IF gfPo.Height # gfW[i].imgHeight THEN scales ELSE "fillWidth", 0, 0)

\* lines 1489-1494: the frame is resized by the scale calcScale returns for
\* the values it has read, and imgWidth and imgHeight are read from the
\* resized frame; data is nil (line 1637), so nothing is shrunk on load
GifResize(i, pc, widthIsZero, heightIsZero) ==
    /\ gfW[i].pc = pc
    /\ \E scale \in {calcScaleGif(gfW[i].imgWidth, gfW[i].imgHeight,
                                  [gfPo EXCEPT !.Width = gfW[i].width,
                                               !.Height = gfW[i].height],
                                  widthIsZero, heightIsZero)} :
         gfW' = [gfW EXCEPT ![i] =
                   [@ EXCEPT !.pc = "fillWidth", !.width = 0, !.height = 0,
                             !.imgWidth = roundToInt(FMul(Float(@), scale)),
                             !.imgHeight = roundToInt(FMul(Float(@), scale))]]
    /\ UNCHANGED <<gfIn, gfPo, gifFrame>>

\* lines 1464-1500, each read of calcScale a step of its own: po.Width for
\* wr (1359), po.Height for hr (1360), po.Width == 0 (1364), and
\* po.Height == 0 (1366) when po.Width was not 0
GifScale(i) ==
    \/ GifRead(i, "scaleWidth", "scaleHeight", gfPo.Width, 0)
    \/ GifRead(i, "scaleHeight", "scaleWidthIsZero", gfW[i].width, gfPo.Height)
    \/ IF gfPo.Width = 0 THEN GifResize(i, "scaleWidthIsZero", TRUE, FALSE)
       ELSE GifRead(i, "scaleWidthIsZero", "scaleHeightIsZero",
                    gfW[i].width, gfW[i].height)
    \/ GifResize(i, "scaleHeightIsZero", FALSE, gfPo.Height = 0)

\* lines 1529-1535, each test and each assignment a step of its own:
\* po.Width == 0 (1529), po.Width = imgWidth (1530), po.Height == 0 (1533),
\* po.Height = imgHeight (1534)
GifFill(i) ==
    \/ IF gfPo.Width = 0 THEN GifRead(i, "fillWidth", "fillStoreWidth", 0, 0)
       ELSE GifRead(i, "fillWidth", "fillHeight", 0, 0)
    \/ GifWrite(i, "fillStoreWidth", "fillHeight",
                [gfPo EXCEPT !.Width = gfW[i].imgWidth])
    \/ IF gfPo.Height = 0 THEN GifRead(i, "fillHeight", "fillStoreHeight", 0, 0)
       ELSE GifRead(i, "fillHeight", "cropWidth", 0, 0)
    \/ GifWrite(i, "fillStoreHeight", "cropWidth",
                [gfPo EXCEPT !.Height = gfW[i].imgHeight])

\* lines 1537-1558, each read a step of its own: po.Width < imgWidth (1537),
\* po.Height < imgHeight when the width was not smaller (1537), the
\* po.Width of left and the po.Height of top in calcCrop under
\* gravityCenter (1416-1417), and the po.Width and po.Height handed to
\* vipsCrop (1552)
GifCrop(i) ==
    \/ GifRead(i, "cropWidth",
               IF gfPo.Width < gfW[i].imgWidth THEN "cropLeft" ELSE "cropHeight", 0, 0)
    \/ IF gfPo.Height < gfW[i].imgHeight
       THEN GifRead(i, "cropHeight", "cropLeft", 0, 0)
       ELSE GifRead(i, "cropHeight", "done", 0, 0)
    \/ /\ gfW[i].pc = "cropLeft"
       /\ gfW' = [gfW EXCEPT ![i] =
                    [@ EXCEPT !.pc = "cropTop",
                              !.left = quo(gfW[i].imgWidth - gfPo.Width + 1, 2)]]
       /\ UNCHANGED <<gfIn, gfPo, gifFrame>>
    \/ /\ gfW[i].pc = "cropTop"
       /\ gfW' = [gfW EXCEPT ![i] =
                    [@ EXCEPT !.pc = "cropLoadWidth",
                              !.top = quo(gfW[i].imgHeight - gfPo.Height + 1, 2)]]
       /\ UNCHANGED <<gfIn, gfPo, gifFrame>>
    \/ GifRead(i, "cropLoadWidth", "cropLoadHeight", gfPo.Width, 0)
    \/ /\ gfW[i].pc = "cropLoadHeight"
       /\ gfW' = [gfW EXCEPT ![i] =
                    [@ EXCEPT !.pc = "done", !.width = 0, !.left = 0, !.top = 0,
                              !.cropped = <<gfW[i].left, gfW[i].top,
                                            gfW[i].width, gfPo.Height>>]]
       /\ UNCHANGED <<gfIn, gfPo, gifFrame>>

(***************************************************************************)
(* applyWatermark and prepareWatermark (process.go:750-805).  Every        *)
(* backend call either succeeds or returns an error.                       *)
(***************************************************************************)
\* the watermark options and the size of the image the watermark is for
WatermarkInputs ==
    [Scale : {Float(0), FQuo(1, 2)}, Replicate : BOOLEAN,
     width : {1, 20}, height : {2, 20}, framesCount : {1, 2}]

\* prepared is what prepareWatermark returned: "" (not yet), "nil" or
\* "error"; failed is the backend call that failed, fitted the size the
\* watermark was replicated or embedded to
NewWatermark ==
    [calls |-> <<>>, poWidth |-> 0, poHeight |-> 0, prepared |-> "",
     failed |-> "", fitted |-> <<0, 0>>, err |-> NoError]

WatermarkInit ==
    /\ wmIn \in WatermarkInputs
    /\ wmPc = "rgb"
    /\ wmSt = NewWatermark

WatermarkIdle ==
    /\ wmIn = [Scale |-> Float(0), Replicate |-> FALSE, width |-> 1, height |-> 2,
               framesCount |-> 1]
    /\ wmPc = "idle"
    /\ wmSt = NewWatermark

watermarkFrame ==
    <<vipsSave, parseVars, serverVars, processVars, scaleVars, downloadVars, animVars,
      cropVars, transformVars, gifVars>>

\* the imgHeight applyWatermark hands to prepareWatermark (line 792)
frameHeight(in) == quo(in.height, in.framesCount)

called(st, call) == [st EXCEPT !.calls = Append(@, call)]

\* applyWatermark returns err
wmReturn(st, call) ==
    /\ wmPc' = "done"
    /\ wmSt' = [called(st, call) EXCEPT !.err = errVips]

\* prepareWatermark returns the error of the call that failed, and
\* applyWatermark returns it (lines 792-794)
prepareFailed(st, call) ==
    /\ wmPc' = "done"
    /\ wmSt' = [called(st, call) EXCEPT !.prepared = "error", !.failed = call,
                                        !.err = errVips]

\* lines 782-790
WmRgbColourspace ==
    /\ wmPc = "rgb"
    /\ \E fails \in BOOLEAN :
         IF fails THEN wmReturn(wmSt, "RgbColourspace")
         ELSE wmPc' = "load" /\ wmSt' = called(wmSt, "RgbColourspace")
    /\ UNCHANGED <<wmIn, watermarkFrame>>

\* lines 751-764
WmLoad ==
    /\ wmPc = "load"
    /\ \E fails \in BOOLEAN :
         IF fails THEN prepareFailed(wmSt, "Load")
         ELSE /\ wmPc' = "transform"
              /\ wmSt' = [called(wmSt, "Load") EXCEPT
                    !.poWidth = IF FLess(Float(0), wmIn.Scale)
                                THEN maxInt(scaleInt(wmIn.width, wmIn.Scale), 1)
                                ELSE 0,
                    !.poHeight = IF FLess(Float(0), wmIn.Scale)
                                 THEN maxInt(scaleInt(frameHeight(wmIn), wmIn.Scale), 1)
                                 ELSE 0]
    /\ UNCHANGED <<wmIn, watermarkFrame>>

\* lines 766-768
WmTransform ==
    /\ wmPc = "transform"
    /\ \E fails \in BOOLEAN :
         IF fails THEN prepareFailed(wmSt, "transformImage")
         ELSE wmPc' = "alpha" /\ wmSt' = called(wmSt, "transformImage")
    /\ UNCHANGED <<wmIn, watermarkFrame>>

\* lines 770-772: return nil, and applyWatermark goes on
ensureAlphaFailed(st) ==
    /\ wmPc' = "frames"
    /\ wmSt' = [called(st, "EnsureAlpha") EXCEPT !.prepared = "nil",
                                                 !.failed = "EnsureAlpha"]

WmEnsureAlpha ==
    /\ wmPc = "alpha"
    /\ \E fails \in BOOLEAN :
         IF fails THEN ensureAlphaFailed(wmSt)
         ELSE wmPc' = "fit" /\ wmSt' = called(wmSt, "EnsureAlpha")
    /\ UNCHANGED <<wmIn, watermarkFrame>>

\* lines 774-778
WmFit ==
    /\ wmPc = "fit"
    /\ \E fails \in BOOLEAN, call \in {IF wmIn.Replicate THEN "Replicate" ELSE "Embed"} :
         IF fails THEN prepareFailed(wmSt, call)
         ELSE /\ wmPc' = "frames"
              /\ wmSt' = [called(wmSt, call) EXCEPT
                             !.prepared = "nil",
                             !.fitted = <<wmIn.width, frameHeight(wmIn)>>]
    /\ UNCHANGED <<wmIn, watermarkFrame>>

\* lines 796-800
WmReplicateFrames ==
    /\ wmPc = "frames"
    /\ \E fails \in BOOLEAN :
         IF wmIn.framesCount > 1
         THEN IF fails THEN wmReturn(wmSt, "Replicate")
              ELSE wmPc' = "apply" /\ wmSt' = called(wmSt, "Replicate")
         ELSE wmPc' = "apply" /\ wmSt' = wmSt
    /\ UNCHANGED <<wmIn, watermarkFrame>>

\* lines 802-804
WmApply ==
    /\ wmPc = "apply"
    /\ \E fails \in BOOLEAN :
         IF fails THEN wmReturn(wmSt, "ApplyWatermark")
         ELSE wmPc' = "done" /\ wmSt' = called(wmSt, "ApplyWatermark")
    /\ UNCHANGED <<wmIn, watermarkFrame>>

PipeIdle == CropIdle /\ TransformIdle /\ WatermarkIdle /\ GifIdle

AuxIdle == ScaleIdle /\ DownloadIdle /\ AnimIdle /\ PipeIdle

vars == <<vipsSave, parseVars, serverVars, processVars, auxVars>>

Init ==
    /\ vipsSave = {"JPEG", "PNG", "WEBP"}
    /\ ServerInit /\ ParseIdle /\ ProcessIdle /\ AuxIdle

Next ==
    \E r \in Requests :
        \/ Arrive(r) \/ WaitElapse(r) \/ Lock(r) \/ Parse(r)
        \/ Download(r) \/ ETag(r) \/ Process(r) \/ Unlock(r) \/ Recover(r)

Spec == Init /\ [][Next]_vars

InitParse ==
    /\ vipsSave \in SaveSets
    /\ ParseInit /\ ServerIdle /\ ProcessIdle /\ AuxIdle

NextParse == ParsePath \/ ApplyAgain

SpecParse == InitParse /\ [][NextParse]_vars

InitProcess ==
    /\ vipsSave \in ProcessSaveSets
    /\ ProcessInit /\ ServerIdle /\ ParseIdle /\ AuxIdle

NextProcess == ResolveFormat \/ SvgPrepass \/ Load \/ Transform \/ Save

SpecProcess == InitProcess /\ [][NextProcess]_vars

InitScale ==
    /\ vipsSave = {"JPEG", "PNG", "WEBP"}
    /\ ScaleInit /\ ServerIdle /\ ParseIdle /\ ProcessIdle /\ DownloadIdle /\ AnimIdle
    /\ PipeIdle

NextScale == CalcScale

SpecScale == InitScale /\ [][NextScale]_vars

InitCrop ==
    /\ vipsSave = {"JPEG", "PNG", "WEBP"}
    /\ CropInit /\ ServerIdle /\ ParseIdle /\ ProcessIdle /\ ScaleIdle
    /\ DownloadIdle /\ AnimIdle /\ TransformIdle /\ WatermarkIdle /\ GifIdle

NextCrop == PlanCrop \/ Crop

SpecCrop == InitCrop /\ [][NextCrop]_vars

InitTransform ==
    /\ vipsSave = {"JPEG", "PNG", "WEBP"}
    /\ TransformInit /\ ServerIdle /\ ParseIdle /\ ProcessIdle /\ ScaleIdle
    /\ DownloadIdle /\ AnimIdle /\ CropIdle /\ WatermarkIdle /\ GifIdle

NextTransform ==
    \/ TrPrepare \/ TrResize \/ TrOrient \/ TrCrop \/ TrSrgb \/ TrFlatten
    \/ TrBlur \/ TrSharpen \/ TrExtend \/ TrWatermark \/ TrFinal

SpecTransform == InitTransform /\ [][NextTransform]_vars

InitWatermark ==
    /\ vipsSave = {"JPEG", "PNG", "WEBP"}
    /\ WatermarkInit /\ ServerIdle /\ ParseIdle /\ ProcessIdle /\ ScaleIdle
    /\ DownloadIdle /\ AnimIdle /\ CropIdle /\ TransformIdle /\ GifIdle

NextWatermark ==
    \/ WmRgbColourspace \/ WmLoad \/ WmTransform \/ WmEnsureAlpha \/ WmFit
    \/ WmReplicateFrames \/ WmApply

SpecWatermark == InitWatermark /\ [][NextWatermark]_vars

InitGif ==
    /\ vipsSave = {"JPEG", "PNG", "WEBP"}
    /\ GifInit /\ ServerIdle /\ ParseIdle /\ ProcessIdle /\ ScaleIdle
    /\ DownloadIdle /\ AnimIdle /\ CropIdle /\ TransformIdle /\ WatermarkIdle

NextGif ==
    \E i \in 1..MaxGifFrames :
      \/ GifDprRead(i) \/ GifDprWrite(i) \/ GifClamp(i) \/ GifNeedToScale(i)
      \/ GifScale(i) \/ GifFill(i) \/ GifCrop(i)

SpecGif == InitGif /\ [][NextGif]_vars

\* the process variables before processImage is called
ProcessUncalled ==
    /\ prReq = [Format |-> "UNKNOWN", PreferWebP |-> FALSE, EnforceWebP |-> FALSE]
    /\ prPo = prReq
    /\ prImg = [Type |-> "JPEG", Data |-> <<>>]
    /\ prPc = "idle"
    /\ prOut = <<>>
    /\ prErr = NoError
    /\ prStages = <<>>

InitDownload ==
    /\ vipsSave = {"JPEG", "PNG", "WEBP"}
    /\ vipsLoad \in {{"JPEG"}, {"JPEG", "HEIC"}}
    /\ DownloadInit /\ ServerIdle /\ ParseIdle /\ ProcessUncalled /\ ScaleIdle /\ AnimIdle
    /\ PipeIdle

NextDownload == CheckContentLength \/ Probe \/ ReadRest

SpecDownload == InitDownload /\ [][NextDownload]_vars

InitAnimated ==
    /\ vipsSave = {"JPEG", "PNG", "WEBP"}
    /\ AnimInit /\ ServerIdle /\ ParseIdle /\ ProcessIdle /\ ScaleIdle /\ DownloadIdle
    /\ PipeIdle

NextAnimated ==
    \/ AnimLoad
    \/ AnimStart
    \/ \E i \in 1..MaxSourceFrames :
         \/ FrameExtract(i)
         \/ FrameExtracted(i)
         \/ FrameTransform(i)
         \/ FrameTransformed(i)
         \/ FrameStore(i)
         \/ FrameReturn(i)
    \/ AnimJoin

SpecAnimated == InitAnimated /\ [][NextAnimated]_vars

(***************************************************************************)
(* Properties of the request orchestrator, checked under Spec.             *)
(***************************************************************************)
AdmittedRequests == {r \in Requests : Admitted(r)}

\* C1: at every moment the number of requests that have passed h.lock() and
\* not yet released it is at most conf.Concurrency, so no more than that
\* many download or transform stages run at once.
C1_AdmissionBound == Cardinality(AdmittedRequests) <= Concurrency

\* every slot is taken by a request in its download or transform stage
\* while another request is blocked in h.lock()
C1_Witness ==
    /\ Cardinality(AdmittedRequests) = Concurrency
    /\ \A r \in AdmittedRequests : reqs[r].pc \in {"download", "process"}
    /\ \E r \in Requests : reqs[r].pc = "lock"

\* the request has read its path and the path is not /health, so that
\* parsePath has been called on it
Parsed_(r) == reqs[r].path > 1

\* C2: a request whose signature verifies against none of the configured
\* (key, salt) pairs gets an error from parsePath, and neither downloadImage
\* nor processImage is ever started for it, in either grammar.
C2_UnsignedNeverFetched ==
    \A r \in Requests :
        (Parsed_(r) /\ ~SignatureValid(ServerPaths[reqs[r].path]))
        => /\ linkedParsePath(ServerPaths[reqs[r].path]).err # ""
           /\ reqs[r].pc \notin {"download", "etag", "process"}
           /\ ~reqs[r].fetched
           /\ ~reqs[r].processed

\* the path follows one of the two grammars, its token left aside
WellFormed(path) ==
    LET res == parsePath(path, vipsSave)
    IN  res.err = "" /\ ParseRequestURI(res.url) = ""

\* C3: a GET request whose signature is invalid is answered 403, and a
\* request whose path is malformed is answered 404.
C3_InvalidSignatureIs403 ==
    \A r \in Requests :
        (reqs[r].pc = "done" /\ Parsed_(r))
        => LET path == ServerPaths[reqs[r].path]
           IN  /\ (WellFormed(path) /\ ~SignatureValid(path))
                  => reqs[r].status = StatusForbidden
               /\ (~WellFormed(path) /\ SignatureValid(path))
                  => reqs[r].status = StatusNotFound

(***************************************************************************)
(* Properties of path parsing, checked under SpecParse.                    *)
(***************************************************************************)
\* the option names of the URL grammar, cache_buster being tolerated
OptionNames ==
    {sResize, sSize, sWidth, sHeight, sEnlarge, sGravity,
     <<"c", "r", "o", "p">>, <<"d", "p", "r">>,
     <<"q", "u", "a", "l", "i", "t", "y">>,
     <<"b", "a", "c", "k", "g", "r", "o", "u", "n", "d">>,
     <<"b", "l", "u", "r">>, <<"s", "h", "a", "r", "p", "e", "n">>,
     <<"w", "a", "t", "e", "r", "m", "a", "r", "k">>,
     <<"p", "r", "e", "s", "e", "t">>, <<"f", "o", "r", "m", "a", "t">>,
     <<"c", "a", "c", "h", "e", "_", "b", "u", "s", "t", "e", "r">>,
     <<"e", "x", "t", "e", "n", "d">>,
     <<"m", "a", "x", "_", "b", "y", "t", "e", "s">>}

\* the directive segments of an advanced path
DirectivesOf(path) ==
    IF IsAdvanced(path) THEN DirectiveSegments(PathParts(path)) ELSE <<>>

\* C4: in the advanced grammar a directive whose name is not a recognized
\* option makes parsing fail; it is never silently skipped.
C4_UnknownOptionRejected ==
    (/\ pStage \in {"parsed", "reapplied"}
     /\ \E i \in 1..Len(DirectivesOf(pPath)) :
            Split(DirectivesOf(pPath)[i], ":")[1] \notin OptionNames)
    => pRes.err # ""

\* an optional sign followed by at least one digit
IsDecimalInteger(s) ==
    LET body == IF s # <<>> /\ Head(s) \in {"-", "+"} THEN Tail(s) ELSE s
    IN  body # <<>> /\ \A i \in 1..Len(body) : IsDigit(body[i])

\* the arguments item a..b of a directive, as far as they are present
ArgsAt(args, a, b) == {args[i] : i \in {j \in a..b : j <= Len(args)}}

\* the width and height arguments of one directive segment
DimensionArgsOf(seg) ==
    LET args == Split(seg, ":")
    IN  IF args[1] \in {sWidth, sHeight} THEN ArgsAt(args, 2, 2)
        ELSE IF args[1] = sSize THEN ArgsAt(args, 2, 3)
        ELSE IF args[1] = sResize THEN ArgsAt(args, 3, 4)
        ELSE {}

\* the width and height arguments of a path in either grammar
DimensionArgs(path) ==
    IF IsAdvanced(path)
    THEN UNION {DimensionArgsOf(DirectivesOf(path)[i]) :
                    i \in 1..Len(DirectivesOf(path))}
    ELSE ArgsAt(PathParts(path), 2, 3)

\* C5: a width or height argument that is not a decimal integer makes
\* parsing fail, in both grammars; it is never accepted as 0.
C5_NonNumericDimensionRejected ==
    (/\ pStage \in {"parsed", "reapplied"}
     /\ \E a \in DimensionArgs(pPath) : ~IsDecimalInteger(a))
    => pRes.err # ""

\* C6: after every successful parse the options have Width >= 0 and
\* Height >= 0.
C6_DimensionsNonNegative ==
    (pStage \in {"parsed", "reapplied"} /\ pRes.err = "")
    => (~pRes.po.Width.neg /\ ~pRes.po.Height.neg)

\* C7: a list of directives that applies successfully to the default
\* options applies successfully a second time to the result and leaves
\* every field unchanged.
C7_ApplicationIdempotent ==
    pStage = "reapplied" => (pAgain.err = "" /\ pAgain.po = pRes.po)

(***************************************************************************)
(* Properties of processImage, checked under SpecProcess.                  *)
(***************************************************************************)
\* the save-supported flag of a type: SVG, or a type the backend saves
SaveSupported(t) == t = "SVG" \/ t \in vipsSave

\* C8: an Unknown requested format resolves to WebP if preferWebp is set and
\* WebP is save-supported, otherwise to the source type if that type is
\* save-supported and is not HEIC, TIFF or BMP, otherwise to JPEG; an
\* explicit format is kept unless enforceWebp is set and WebP is
\* save-supported, which gives WebP.
C8_FormatResolution ==
    prPc \in {"prepass", "load"}
    => IF prReq.Format = "UNKNOWN"
       THEN /\ (prReq.PreferWebP /\ SaveSupported("WEBP")) => prPo.Format = "WEBP"
            /\ (/\ ~(prReq.PreferWebP /\ SaveSupported("WEBP"))
                /\ SaveSupported(prImg.Type)
                /\ prImg.Type \notin {"HEIC", "TIFF", "BMP"})
               => prPo.Format = prImg.Type
            /\ (/\ ~(prReq.PreferWebP /\ SaveSupported("WEBP"))
                /\ ~(SaveSupported(prImg.Type)
                     /\ prImg.Type \notin {"HEIC", "TIFF", "BMP"}))
               => prPo.Format = "JPEG"
       ELSE /\ (prReq.EnforceWebP /\ SaveSupported("WEBP")) => prPo.Format = "WEBP"
            /\ ~(prReq.EnforceWebP /\ SaveSupported("WEBP"))
               => prPo.Format = prReq.Format

\* an Unknown format fell back to JPEG because the source, though the
\* backend saves it, is not good for the web
C8_Witness ==
    /\ prPc = "prepass"
    /\ prReq.Format = "UNKNOWN"
    /\ prImg.Type = "TIFF"
    /\ SaveSupported("TIFF")
    /\ prPo.Format = "JPEG"

\* C9: whenever enforceWebp is set and WebP is save-supported the resolved
\* format is WebP, whatever format was requested and whatever preferWebp
\* and the source type are.
C9_EnforceWebpWins ==
    (/\ prPc \notin {"idle", "resolve"}
     /\ prReq.EnforceWebP
     /\ SaveSupported("WEBP"))
    => prPo.Format = "WEBP"

\* C10: when the resolved format is SVG, an SVG source is returned byte for
\* byte and a non-SVG source fails with the 422 conversion error; in both
\* cases nothing is loaded, transformed or encoded.
C10_SvgPassThrough ==
    (prPc \notin {"idle", "resolve", "prepass"} /\ prPo.Format = "SVG")
    => /\ prPc = "done"
       /\ prStages = <<>>
       /\ IF prImg.Type = "SVG"
          THEN prErr = NoError /\ prOut = prImg.Data
          ELSE prErr.code = 422 /\ prErr = errConvertingNonSvgToSvg /\ prOut = <<>>

\* a non-SVG source asked to become SVG has been refused
C10_Witness ==
    /\ prPc = "done"
    /\ prPo.Format = "SVG"
    /\ prImg.Type = "PNG"
    /\ prErr = errConvertingNonSvgToSvg
    /\ prStages = <<>>

(***************************************************************************)
(* Properties of calcScale, checked under SpecScale.                       *)
(***************************************************************************)
\* C11: with enlarge off and a source that is not SVG the scale returned by
\* calcScale is at most 1, for every source size, target size, resizing
\* type and dpr > 0.
C11_ScaleAtMostOne ==
    (scPc = "done" /\ ~scIn.po.Enlarge /\ scIn.imgtype # "SVG")
    => ~FLess(Float(1), scOut)

(***************************************************************************)
(* Properties of readAndCheckImage, checked under SpecDownload.            *)
(***************************************************************************)
\* the header of the source passes the type and the dimension checks
HeaderAccepted == checkTypeAndDimensions(dlConf, dlSrc) = NoError

\* C12: a stream whose byte count exceeds maxSrcFileSize (> 0), and whose
\* header has been probed and accepted, makes readAndCheckImage fail with
\* SourceFileTooBig (422) and return no image data, whatever Content-Length
\* it declared and however the bytes are split across the reads, a last
\* read with data and end-of-stream included.
C12_OversizeRejected ==
    (/\ dlPc = "done"
     /\ dlConf.MaxSrcFileSize > 0
     /\ BodyBytes(dlSrc.reads) > dlConf.MaxSrcFileSize
     /\ dlRd.probed
     /\ HeaderAccepted)
    => (dlErr = errSourceFileTooBig /\ dlOut = NoImage)

\* the dimensions read from the header break a limit, width*height being
\* the product of the two numbers
DimensionsViolate ==
    \/ /\ dlConf.MaxSrcDimension > 0
       /\ (NatAbove(dlSrc.width, dlConf.MaxSrcDimension)
           \/ NatAbove(dlSrc.height, dlConf.MaxSrcDimension))
    \/ NatAbove(NatMul(dlSrc.width, dlSrc.height), dlConf.MaxSrcResolution)

\* the failure of a source that is too large, before the rest is read
RejectedAtHeader ==
    /\ dlErr \in {errSourceDimensionsTooBig, errSourceResolutionTooBig}
    /\ ~dlRd.rest
    /\ dlOut = NoImage

\* C13: whenever the dimensions probed from the header of a source break a
\* limit, readAndCheckImage fails with SourceDimensionsTooBig or
\* SourceResolutionTooBig before the rest of the stream is read, and no
\* image data reaches the load and transform stages.  Stated for the
\* sources whose type the backend loads: the others are refused for their
\* type before their dimensions are looked at.
C13_ProbedDimensionsRejected ==
    (/\ dlPc = "done"
     /\ dlRd.probed
     /\ imageTypeLoadSupport(dlSrc.type)
     /\ DimensionsViolate)
    => RejectedAtHeader

(***************************************************************************)
(* Properties of transformAnimated, checked under SpecAnimated.            *)
(***************************************************************************)
\* C14: the result of transformAnimated has min(source frame count,
\* maxAnimationFrames) frames, its n-pages is that count, and its gif-delay
\* and gif-loop are those of the source.
C14_AnimatedFramesPreserved ==
    anOut.res = "ok"
    => /\ anOut.frames = minInt(anIn.src.frames, anIn.maxAnimationFrames)
       /\ anOut.nPages = anOut.frames
       /\ anOut.delay = anIn.src.delay
       /\ anOut.loop = anIn.src.loop

\* a source of three frames came out with the two frames allowed, its loop
\* count kept
C14_Witness ==
    /\ anOut.res = "ok"
    /\ anIn.src.frames = 3
    /\ anIn.maxAnimationFrames = 2
    /\ anOut.frames = 2
    /\ anOut.nPages = 2
    /\ anOut.loop = 3

\* the frame goroutines that are running transformImage
FrameWorkers == {i \in 1..MaxSourceFrames : anW[i] = "transform"}

\* C20: the frame transforms of an animated image that run at the same time
\* are never more than conf.Concurrency.
C20_FrameWorkersBounded == Cardinality(FrameWorkers) <= Concurrency

(***************************************************************************)
(* Properties of the deadline, the ETag and the recovery of ServeHTTP,     *)
(* checked under Spec.                                                     *)
(***************************************************************************)
\* C15: a request that is still blocked in h.lock() when conf.WriteTimeout
\* has passed since its arrival is aborted with Timeout: it is never admitted
\* after that.
C15_BlockedRequestTimesOut ==
    \A r \in Requests :
        reqs[r].waited
        => \/ reqs[r].pc = "lock"
           \/ reqs[r].pc = "done" /\ reqs[r].status = StatusTimeout

\* C16: when conf.ETagEnabled is set and If-None-Match equals the ETag of
\* the source bytes and the options, the request is answered 304,
\* processImage is not called for it and no image body is written.
C16_NotModifiedSkipsProcessing ==
    \A r \in Requests :
        reqs[r].etag = "match"
        => /\ reqs[r].pc \in {"unlock", "recover", "done"}
           /\ reqs[r].pc = "done" => reqs[r].status = StatusNotModified
           /\ ~reqs[r].processed
           /\ reqs[r].body # "image"

\* a request whose tag matched was answered 304 after its download, while
\* another request got its image
C16_Witness ==
    \E r, q \in Requests :
        /\ conf.etag
        /\ reqs[r].etag = "match"
        /\ reqs[r].fetched
        /\ reqs[r].status = StatusNotModified
        /\ reqs[q].etag = "differs"
        /\ reqs[q].body = "image"

\* C17: every panic raised while a request is served, whatever the type of
\* its value, is caught by the deferred function of ServeHTTP and answered:
\* with the carried status for an imgproxyError, with 500 otherwise.
C17_EveryPanicAnswered ==
    \A r \in Requests :
        (reqs[r].pc = "done" /\ reqs[r].panic # "none")
        => /\ reqs[r].status # 0
           /\ reqs[r].body = "message"
           /\ reqs[r].panic # "imgproxyError"
              => reqs[r].status = StatusInternalError

\* the path of the request is malformed or its signature does not verify
Rejected(r) ==
    /\ Parsed_(r)
    /\ \/ ~WellFormed(ServerPaths[reqs[r].path])
       \/ ~SignatureValid(ServerPaths[reqs[r].path])

\* C19: a request with a malformed path or an invalid signature is rejected
\* without having taken a slot of the concurrency semaphore.
C19_RejectedBeforeAdmission ==
    \A r \in Requests : Rejected(r) => ~reqs[r].slot

(***************************************************************************)
(* The deadline checkpoints of the frame transforms, checked under         *)
(* SpecAnimated.                                                           *)
(***************************************************************************)
\* C18: a deadline checkpoint that runs after the deadline has expired makes
\* the request abort with Timeout: the panic of checkTimeout reaches the
\* caller of processImage, and no frame is joined or encoded.
C18_ExpiredCheckpointAborts ==
    (anMain.pc = "done" /\ anOut.err = errTimeout)
    => (anOut.res = "timeout" /\ anOut.frames = 0)

(***************************************************************************)
(* The buffers of the download pool, checked under SpecDownload.           *)
(***************************************************************************)
\* the Content-Length of the response is above conf.MaxSrcFileSize
DeclaredTooLarge ==
    dlConf.MaxSrcFileSize > 0 /\ dlSrc.contentLength > dlConf.MaxSrcFileSize

\* C21: when readAndCheckImage has returned, a failure has put back every
\* buffer it took from the pool exactly once, a success has put back none
\* and hands the buffer over with the image data, no returned image data
\* refers to a buffer that is back in the pool, and the exit for a declared
\* length that is too large has taken no buffer.
C21_BufferReleasedOnce ==
    dlPc = "done"
    => /\ dlRd.got = (IF DeclaredTooLarge THEN 0 ELSE 1)
       /\ dlErr # NoError => (dlRd.put = dlRd.got /\ dlOut = NoImage)
       /\ dlErr = NoError => (dlRd.put = 0 /\ dlOut # NoImage)
       /\ dlOut # NoImage => dlRd.put = 0

\* a source refused for its dimensions after the probe has given its buffer
\* back, with the limit reader in place
C21_Witness ==
    /\ dlPc = "done"
    /\ dlErr = errSourceResolutionTooBig
    /\ dlConf.MaxSrcFileSize > 0
    /\ dlRd.got = 1
    /\ dlRd.put = 1

(***************************************************************************)
(* The shrink factor of calcScale, checked under SpecScale.                *)
(***************************************************************************)
\* the source and the target lean the same way: both at least as wide as
\* high, or both higher than wide
SameLean(width, height, po) ==
    \/ (width - height >= 0 /\ po.Width - po.Height >= 0)
    \/ (width - height < 0 /\ po.Width - po.Height < 0)

\* the shrink factor as the rule states it
StatedShrink(width, height, po) ==
    IF po.Width = 0 /\ po.Height = 0 THEN Float(1)
    ELSE IF po.Width = 0 THEN FQuo(height, po.Height)
    ELSE IF po.Height = 0 THEN FQuo(width, po.Width)
    ELSE IF po.Width = width /\ po.Height = height THEN Float(1)
    ELSE IF \/ po.ResizingType = "fit"
            \/ po.ResizingType = "auto" /\ ~SameLean(width, height, po)
    THEN FMax(FQuo(width, po.Width), FQuo(height, po.Height))
    ELSE FMin(FQuo(width, po.Width), FQuo(height, po.Height))

\* enlarging is on, dpr is 1 and the stated shrink is within the source
\* size, so that the scale returned is the inverse of the shrink chosen
ShrinkReturned ==
    /\ scIn.po.Enlarge
    /\ scIn.po.Dpr = Float(1)
    /\ scIn.po.ResizingType \in {"fit", "fill", "auto"}
    /\ ~FLess(Float(scIn.width), StatedShrink(scIn.width, scIn.height, scIn.po))
    /\ ~FLess(Float(scIn.height), StatedShrink(scIn.width, scIn.height, scIn.po))

\* C22: the shrink factor of calcScale is that of the other axis when a
\* target axis is zero, 1 when both are zero or the target is the source
\* size, the greater of the two ratios for fit and the smaller for fill, and
\* auto is fill when source and target lean the same way and fit otherwise.
C22_ShrinkChosen ==
    (scPc = "done" /\ ShrinkReturned)
    => scOut = FDiv(Float(1), StatedShrink(scIn.width, scIn.height, scIn.po))

\* auto was taken as fill for a wide source and a wide target whose two
\* ratios differ
C22_Witness ==
    /\ scPc = "done"
    /\ ShrinkReturned
    /\ scIn.po.ResizingType = "auto"
    /\ scIn.width = 200 /\ scIn.height = 100
    /\ scIn.po.Width = 100 /\ scIn.po.Height = 10
    /\ scOut = FQuo(1, 2)

(***************************************************************************)
(* Properties of the crops, checked under SpecCrop.                        *)
(***************************************************************************)
\* C23: the crop size handed to calcCrop by cropImage is positive and
\* within the image, and the (left, top) it returns keeps the rectangle
\* inside the image, for every gravity type, offset and focus point.
C23_CropInsideImage ==
    \A i \in 1..Len(crCalls) :
        crCalls[i].op = "Crop"
        => /\ 0 < crCalls[i].cropWidth /\ crCalls[i].cropWidth <= crCalls[i].width
           /\ 0 < crCalls[i].cropHeight /\ crCalls[i].cropHeight <= crCalls[i].height
           /\ 0 <= crCalls[i].left
           /\ crCalls[i].left <= crCalls[i].width - crCalls[i].cropWidth
           /\ 0 <= crCalls[i].top
           /\ crCalls[i].top <= crCalls[i].height - crCalls[i].cropHeight

\* a crop anchored east with an offset of -30 that would leave the image on
\* the right was kept inside it
C23_Witness ==
    \E i \in 1..Len(crCalls) :
        /\ crCalls[i].op = "Crop"
        /\ crCalls[i].gravity.Type = "ea"
        /\ truncInt(crCalls[i].gravity.X) < 0
        /\ crCalls[i].cropWidth < crCalls[i].width
        /\ crCalls[i].left = crCalls[i].width - crCalls[i].cropWidth

\* the request has no crop directive and its gravity is anchored with pixel
\* offsets
NoCropDirective ==
    /\ crIn.po.Crop.Width = 0
    /\ crIn.po.Crop.Height = 0
    /\ crIn.po.Crop.Gravity = NoGravity
    /\ crIn.po.Gravity.Type \notin {"fp", "sm"}

\* C29: without a crop directive and with a gravity that is no focus point,
\* transformImage crops at most once, to the target size times dpr, and the
\* offsets that crop is anchored with are exactly those of the request, for
\* every scale.
C29_OffsetsAppliedOnce ==
    (crPc = "done" /\ NoCropDirective)
    => /\ Len(crCalls) <= 1
       /\ \A i \in 1..Len(crCalls) :
             /\ crCalls[i].gravity.X = crIn.po.Gravity.X
             /\ crCalls[i].gravity.Y = crIn.po.Gravity.Y

(***************************************************************************)
(* Properties of the stages of transformImage, checked under               *)
(* SpecTransform.                                                          *)
(***************************************************************************)
\* the calls s, made when cond holds
When(cond, s) == IF cond THEN s ELSE <<>>

\* the calls a cropImage can make: none, a crop, or a smart crop between
\* two copies to memory
OneCrop == {<<>>, <<"Crop">>, <<"CopyMemory", "SmartCrop", "CopyMemory">>}

\* the calls of the crop stage
CropStage == {a \o b : a \in OneCrop, b \in OneCrop}

\* the calls of the sRGB fix
SrgbFix == {<<"RgbColourspace">>, <<"ImportColourProfile", "RgbColourspace">>}

\* the backend calls of a run in the stated order, each optional stage
\* under its stated condition, with crop as the calls of the crop stage and
\* fix as those of the sRGB fix; scale is the local of transformImage and
\* the current size is that of the image the run has reached
StatedStages(crop, fix) ==
    When(trSt.scale # Float(1), <<"Resize">>)
    \o When(trIn.angle # 0 \/ trIn.flip, <<"CopyMemory">>)
    \o When(trIn.angle # 0, <<"Rotate">>)
    \o When(trIn.flip, <<"Flip">>)
    \o crop
    \o fix
    \o When(trIn.hasAlpha /\ (trIn.po.Flatten \/ trIn.po.Format = "JPEG"),
            <<"Flatten">>)
    \o When(trIn.po.Blur > 0, <<"Blur">>)
    \o When(trIn.po.Sharpen > 0, <<"Sharpen">>)
    \o When(trIn.po.Extend /\ (trIn.po.Width > trSt.img.width
                                \/ trIn.po.Height > trSt.img.height),
            <<"Embed">>)
    \o When(trIn.po.WatermarkEnabled /\ trIn.watermark, <<"ApplyWatermark">>)
    \o <<"RgbColourspace">>

\* the calls made by the stages from the resize on, those of the colour
\* preparation before the resize left out
StagesRun ==
    With(SelectSeq(trOps, LAMBDA c : c.stage # "prepare"), LAMBDA calls :
    [i \in 1..Len(calls) |-> calls[i].op])

\* s is an initial part of t
IsPrefix(s, t) == Len(s) <= Len(t) /\ s = SubSeq(t, 1, Len(s))

\* C24: the backend calls of transformImage are made in the order resize,
\* orientation fix, crop, sRGB fix, flatten, blur, sharpen, extend,
\* watermark, final sRGB fix, and a run without error makes each optional
\* one exactly when its condition holds.
C24_StagesInOrder ==
    trPc \notin {"idle", "prepare"}
    => \E crop \in CropStage, fix \in SrgbFix :
          /\ IsPrefix(StagesRun, StatedStages(crop, fix))
          /\ (trPc = "done" /\ trErr = NoError)
             => StagesRun = StatedStages(crop, fix)

\* a run without error that made every optional call
C24_Witness ==
    /\ trPc = "done"
    /\ trErr = NoError
    /\ StagesRun = <<"Resize", "CopyMemory", "Rotate", "Flip", "Crop",
                     "ImportColourProfile", "RgbColourspace", "Flatten", "Blur",
                     "Sharpen", "Embed", "ApplyWatermark", "RgbColourspace">>

(***************************************************************************)
(* The watermark of an animated image, checked under SpecAnimated.         *)
(***************************************************************************)
\* C25: no frame transform of transformAnimated applies the watermark; a
\* call that succeeds applies it once after the join exactly when the
\* request enabled it and a watermark is configured; and whenever
\* transformAnimated returns, po.Watermark.Enabled is what it was on entry.
C25_WatermarkOnceAfterJoin ==
    /\ anMain.wmFrames = 0
    /\ anOut.res = "ok"
       => anOut.wmApplied = (IF anIn.watermarkEnabled /\ anIn.watermark THEN 1 ELSE 0)
    /\ (anMain.pc = "done" /\ anOut.res # "crash")
       => anMain.wmEnabled = anIn.watermarkEnabled

\* two frames were transformed with the watermark switched off, the joined
\* image got it once and the option is switched on again
C25_Witness ==
    /\ anMain.pc = "done"
    /\ anOut.res = "ok"
    /\ anOut.frames = 2
    /\ anIn.watermarkEnabled /\ anIn.watermark
    /\ anMain.wmFrames = 0
    /\ anOut.wmApplied = 1
    /\ anMain.wmEnabled

(***************************************************************************)
(* The errors of prepareWatermark, checked under SpecWatermark.            *)
(***************************************************************************)
\* C26: when prepareWatermark returns nil, none of its backend calls (Load,
\* transformImage, EnsureAlpha, Replicate or Embed) has failed and the
\* watermark was replicated or embedded to the size of the image.
C26_PrepareReportsFailure ==
    wmSt.prepared = "nil"
    => /\ wmSt.failed = ""
       /\ wmSt.fitted = <<wmIn.width, frameHeight(wmIn)>>

(***************************************************************************)
(* The frame goroutines of transformAnimated and their shared err,         *)
(* checked under SpecAnimated.                                             *)
(***************************************************************************)
\* C27: under every interleaving of the frame goroutines, when the Extract
\* or the transformImage of a frame failed, transformAnimated returns an
\* error without calling img.Arrayjoin; and when no frame failed, every
\* entry of frames is set when img.Arrayjoin is called.
C27_FrameFailureEndsCall ==
    (anMain.pc = "done" /\ anOut.res # "crash")
    => /\ anMain.failed => (anOut.res = "error" /\ ~anOut.joined)
       /\ (~anMain.failed /\ anOut.joined) => anFrames = 1..anMain.framesCount

(***************************************************************************)
(* The options shared by the frames of a GIF, checked under SpecGif.       *)
(***************************************************************************)
\* what transformImage does to one image when nothing else writes po, the
\* requested size being multiplied by dpr once: the size it resizes the
\* image to and the arguments of its vipsCrop, none when it does not crop
StatedTargets(in) ==
    LET po == clampToImage(applyDpr(in.po, in.po.Width, in.po.Height),
                           in.imgWidth, in.frameHeight)
        size == resized(in.imgWidth, in.frameHeight, po)
        filled == fillFromImage(po, size[1], size[2])
    IN  <<size,
          IF filled.Width < size[1] \/ filled.Height < size[2]
          THEN <<quo(size[1] - filled.Width + 1, 2),
                 quo(size[2] - filled.Height + 1, 2), filled.Width, filled.Height>>
          ELSE <<>>>>

\* C28: every frame of a GIF is scaled and cropped to the same targets, the
\* requested width and height multiplied by dpr once, whatever the number
\* of frames and the order of the frame goroutines.
C28_FramesShareTarget ==
    \A i \in 1..MaxGifFrames :
       gfW[i].pc = "done"
       => <<<<gfW[i].imgWidth, gfW[i].imgHeight>>, gfW[i].cropped>> = StatedTargets(gfIn)

(***************************************************************************)
(* The occupancy of the semaphore, checked under Spec.                     *)
(***************************************************************************)
\* the requests between h.lock() and the deferred h.unlock()
InFlight == {r \in Requests : Admitted(r)}

\* C30: the number of slots taken in h.sem is always the number of
\* requests between h.lock() and their deferred h.unlock(), whatever way
\* each request ended; a request answered before h.lock() has taken none.
C30_SlotsBalanced ==
    /\ sem = Cardinality(InFlight)
    /\ \A r \in Requests :
         (reqs[r].pc = "done" /\ reqs[r].path = 0) => ~reqs[r].slot

\* one request was refused for its method without a slot, the other took a
\* slot and ended in the panic of a library call; no slot is taken any more
C30_Witness ==
    /\ sem = 0
    /\ \E r, q \in Requests :
         /\ reqs[r].pc = "done" /\ reqs[r].status = StatusMethodNotAllowed
         /\ ~reqs[r].slot
         /\ reqs[q].pc = "done" /\ reqs[q].slot /\ reqs[q].panic = "error"

====
